---- MODULE Spec2Model ----
(***************************************************************************)
(* ZeroProto wire codec: MessageBuilder, MessageReader and VectorReader of *)
(* crates/zeroproto, as a state machine.                                   *)
(*                                                                         *)
(* Representation.  A byte buffer is a sequence of 0..255; Rust's index i  *)
(* is element i+1.  A scalar value is its bit pattern, held as a sequence  *)
(* of 16-bit limbs, least significant first (one limb < 256 for the        *)
(* one-byte types), so that all 64 bits of a u64 are exact.  The casts     *)
(* `as i16`, `as u16`, f32::from_bits, to_bits keep the bit pattern, and   *)
(* the model identifies a signed or float value with its pattern.  bool is *)
(* <<0>> or <<1>>.  usize is 64 bits wide: see AsUsize.                    *)
(***************************************************************************)
EXTENDS Integers, Sequences, FiniteSets, TLC

\* ------------------------------------------------------------------------
\* errors.rs: Result and Error, and Option.  A panic (slice index out of
\* range) is a third outcome of an operation.
\* ------------------------------------------------------------------------
Ok(v) == [tag |-> "Ok", val |-> v]
Err(e) == [tag |-> "Err", err |-> e]
Panic == [tag |-> "Panic"]
None == [some |-> FALSE]
Some(v) == [some |-> TRUE, v |-> v]

IsOk(r) == r.tag = "Ok"
IsErr(r, e) == r.tag = "Err" /\ r.err = e

\* ------------------------------------------------------------------------
\* lib.rs constants
\* ------------------------------------------------------------------------
MAX_FIELDS == 65535
FIELD_ENTRY_SIZE == 5

\* ------------------------------------------------------------------------
\* primitives.rs: PrimitiveType (held as its repr(u8) discriminant)
\* ------------------------------------------------------------------------
ScalarTypes == {"u8", "u16", "u32", "u64", "i8", "i16", "i32", "i64", "f32", "f64", "bool"}

PrimitiveType ==
    [U8 |-> 0, U16 |-> 1, U32 |-> 2, U64 |-> 3, I8 |-> 4, I16 |-> 5, I32 |-> 6,
     I64 |-> 7, F32 |-> 8, F64 |-> 9, Bool |-> 10, String |-> 11, Bytes |-> 12,
     Message |-> 13, Vector |-> 14, Unset |-> 255]

from_u8(value) ==
    IF value \in (0..14) \cup {255} THEN Some(value) ELSE None

\* ------------------------------------------------------------------------
\* Slices and little-endian conversion
\* ------------------------------------------------------------------------
\* buf[a..b]
Slice(buf, a, b) == SubSeq(buf, a + 1, b)

\* uN::to_le_bytes on the limbs of a value of more than one byte
to_le_bytes(limbs) ==
    [i \in 1..(2 * Len(limbs)) |->
        IF i % 2 = 1 THEN limbs[(i + 1) \div 2] % 256 ELSE limbs[i \div 2] \div 256]

\* uN::from_le_bytes
from_le_bytes(bytes) ==
    [i \in 1..(Len(bytes) \div 2) |-> bytes[2 * i - 1] + 256 * bytes[2 * i]]

\* a usize (or u16/u32 taken from a usize `as u32`) as limbs of `n` limbs
Limbs(x, n) ==
    [i \in 1..n |-> IF i = 1 THEN x % 65536 ELSE IF i = 2 THEN x \div 65536 ELSE 0]

\* `as usize` of a u16 or u32.  usize has 64 bits, so offset + 4 + len and
\* offset + 4 + count * size never wrap.  The model's integers have 32 bits:
\* every value >= Huge is held as Huge, which is above every buffer length
\* of the model and small enough that Huge + 4 + 8 * Huge is exact.
Huge == 65536 * 1024
AsUsize(limbs) ==
    IF Len(limbs) = 1 THEN limbs[1]
    ELSE IF limbs[2] >= Huge \div 65536 THEN Huge
    ELSE limbs[1] + 65536 * limbs[2]

\* ------------------------------------------------------------------------
\* primitives.rs: Endian::read_* / write_* for Endian::Little.  `&buf[a..b]`
\* and `buf[i]` panic when the range is not inside buf.
\* ------------------------------------------------------------------------
read_u8(buf, offset) ==
    IF offset >= Len(buf) THEN Panic ELSE Ok(<<buf[offset + 1]>>)

read_u16(buf, offset) ==
    IF offset + 2 > Len(buf) THEN Panic
    ELSE Ok(from_le_bytes(Slice(buf, offset, offset + 2)))

read_u32(buf, offset) ==
    IF offset + 4 > Len(buf) THEN Panic
    ELSE Ok(from_le_bytes(Slice(buf, offset, offset + 4)))

read_u64(buf, offset) ==
    IF offset + 8 > Len(buf) THEN Panic
    ELSE Ok(from_le_bytes(Slice(buf, offset, offset + 8)))

read_bool(buf, offset) ==
    LET r == read_u8(buf, offset)
    IN  IF r.tag = "Panic" THEN r ELSE Ok(<<IF r.val[1] # 0 THEN 1 ELSE 0>>)

\* buf[offset..offset + n].copy_from_slice(bytes), n = Len(bytes)
copy_from_slice(buf, offset, bytes) ==
    IF offset + Len(bytes) > Len(buf) THEN Panic
    ELSE Ok([i \in 1..Len(buf) |->
                IF i > offset /\ i <= offset + Len(bytes) THEN bytes[i - offset]
                ELSE buf[i]])

write_u8(value, buf, offset) ==
    IF offset >= Len(buf) THEN Panic
    ELSE Ok([buf EXCEPT ![offset + 1] = value[1]])

write_u16(value, buf, offset) == copy_from_slice(buf, offset, to_le_bytes(value))

write_u32(value, buf, offset) == copy_from_slice(buf, offset, to_le_bytes(value))

write_u64(value, buf, offset) == copy_from_slice(buf, offset, to_le_bytes(value))

\* `value as u8` of a bool is 0 or 1
write_bool(value, buf, offset) == write_u8(value, buf, offset)

\* ------------------------------------------------------------------------
\* lib.rs: ZpRead / ZpWrite for the eleven primitive types
\* ------------------------------------------------------------------------
ZpSize(ty) ==
    CASE ty \in {"u8", "i8", "bool"} -> 1
      [] ty \in {"u16", "i16"} -> 2
      [] ty \in {"u32", "i32", "f32"} -> 4
      [] ty \in {"u64", "i64", "f64"} -> 8

ZpRead(ty, buf, offset) ==
    IF offset + ZpSize(ty) > Len(buf) THEN Err("OutOfBounds")
    ELSE CASE ty \in {"u8", "i8"} -> read_u8(buf, offset)
           [] ty \in {"u16", "i16"} -> read_u16(buf, offset)
           [] ty \in {"u32", "i32", "f32"} -> read_u32(buf, offset)
           [] ty \in {"u64", "i64", "f64"} -> read_u64(buf, offset)
           [] ty = "bool" -> read_bool(buf, offset)

\* ZpWrite with the fault of writing the wider types big-endian
Faulty_ZpWrite(ty, value, buf, offset) ==
    LET le == to_le_bytes(value)
        be == [i \in 1..Len(le) |-> le[Len(le) + 1 - i]]
    IN  IF offset + ZpSize(ty) > Len(buf) THEN Err("OutOfBounds")
        ELSE CASE ty \in {"u8", "i8"} -> write_u8(value, buf, offset)
               [] ty = "bool" -> write_bool(value, buf, offset)
               [] OTHER -> copy_from_slice(buf, offset, be)

ZpWrite(ty, value, buf, offset) ==
    IF offset + ZpSize(ty) > Len(buf) THEN Err("OutOfBounds")
    ELSE CASE ty \in {"u8", "i8"} -> write_u8(value, buf, offset)
           [] ty \in {"u16", "i16"} -> write_u16(value, buf, offset)
           [] ty \in {"u32", "i32", "f32"} -> write_u32(value, buf, offset)
           [] ty \in {"u64", "i64", "f64"} -> write_u64(value, buf, offset)
           [] ty = "bool" -> write_bool(value, buf, offset)

\* ------------------------------------------------------------------------
\* builder.rs: MessageBuilder.  An operation yields the builder after the
\* call (b) and the returned Result (r).
\* ------------------------------------------------------------------------
\* Vec::resize(new_len, value)
resize(v, new_len, value) ==
    IF new_len <= Len(v) THEN SubSeq(v, 1, new_len)
    ELSE v \o [i \in 1..(new_len - Len(v)) |-> value]

\* if required_size > self.buffer.len() { self.buffer.resize(required_size, 0) }
reserve(buffer, required_size) ==
    IF required_size > Len(buffer) THEN resize(buffer, required_size, 0) ELSE buffer

MessageBuilder_new ==
    [buffer |-> <<0, 0>>, field_entries |-> <<>>, field_count |-> 0, payload_offset |-> 2]

\* ensure_field_index with the fault of comparing with `>`
Faulty_ensure_field_index(b, field_index) ==
    IF field_index > MAX_FIELDS THEN [b |-> b, r |-> Err("OutOfBounds")]
    ELSE IF field_index >= b.field_count
         THEN [b |-> [b EXCEPT !.field_count = field_index + 1,
                               !.field_entries =
                                   resize(@, field_index + 1, [type_id |-> 0, offset |-> 0])],
               r |-> Ok(<<>>)]
         ELSE [b |-> b, r |-> Ok(<<>>)]

ensure_field_index(b, field_index) ==
    IF field_index >= MAX_FIELDS THEN [b |-> b, r |-> Err("OutOfBounds")]
    ELSE IF field_index >= b.field_count
         THEN [b |-> [b EXCEPT !.field_count = field_index + 1,
                               !.field_entries =
                                   resize(@, field_index + 1, [type_id |-> 0, offset |-> 0])],
               r |-> Ok(<<>>)]
         ELSE [b |-> b, r |-> Ok(<<>>)]

\* set_field_entry with the fault of keeping the entry of an earlier write
Faulty_set_field_entry(b, field_index, type_id, offset) ==
    IF b.field_entries[field_index + 1].offset # 0 THEN b
    ELSE [b EXCEPT !.field_entries[field_index + 1] =
                       [type_id |-> type_id, offset |-> offset]]

set_field_entry(b, field_index, type_id, offset) ==
    [b EXCEPT !.field_entries[field_index + 1] = [type_id |-> type_id, offset |-> offset]]

\* core::any::type_name::<T>() matched against the eleven names
get_type_id(ty) ==
    CASE ty = "u8" -> Ok(PrimitiveType.U8)
      [] ty = "u16" -> Ok(PrimitiveType.U16)
      [] ty = "u32" -> Ok(PrimitiveType.U32)
      [] ty = "u64" -> Ok(PrimitiveType.U64)
      [] ty = "i8" -> Ok(PrimitiveType.I8)
      [] ty = "i16" -> Ok(PrimitiveType.I16)
      [] ty = "i32" -> Ok(PrimitiveType.I32)
      [] ty = "i64" -> Ok(PrimitiveType.I64)
      [] ty = "f32" -> Ok(PrimitiveType.F32)
      [] ty = "f64" -> Ok(PrimitiveType.F64)
      [] ty = "bool" -> Ok(PrimitiveType.Bool)
      [] OTHER -> Err("InvalidFieldType")

set_scalar(b, field_index, ty, value) ==
    LET e == ensure_field_index(b, field_index)
        type_id == get_type_id(ty)
        b1 == e.b
        field_offset == b1.payload_offset
        buf1 == reserve(b1.buffer, b1.payload_offset + ZpSize(ty))
        w == ZpWrite(ty, value, buf1, b1.payload_offset)
    IN  IF ~IsOk(e.r) THEN e
        ELSE IF ~IsOk(type_id) THEN [b |-> b1, r |-> type_id]
        ELSE IF ~IsOk(w) THEN [b |-> [b1 EXCEPT !.buffer = buf1], r |-> w]
        ELSE [b |-> [set_field_entry(b1, field_index, type_id.val, field_offset)
                        EXCEPT !.buffer = w.val,
                               !.payload_offset = @ + ZpSize(ty)],
              r |-> Ok(<<>>)]

\* set_length_prefixed with the fault of copying the body over the length word
Faulty_set_length_prefixed(b, field_index, type_id, value) ==
    LET e == ensure_field_index(b, field_index)
        b1 == e.b
        field_offset == b1.payload_offset
        len == Len(value)
        buf1 == reserve(b1.buffer, b1.payload_offset + 4 + len)
        w1 == write_u32(Limbs(len, 2), buf1, b1.payload_offset)
        w2 == copy_from_slice(w1.val, b1.payload_offset, value)
    IN  IF ~IsOk(e.r) THEN e
        ELSE [b |-> [set_field_entry(b1, field_index, type_id, field_offset)
                        EXCEPT !.buffer = w2.val,
                               !.payload_offset = @ + 4 + len],
              r |-> Ok(<<>>)]

\* set_string, set_bytes and set_message have one body up to the type id
set_length_prefixed(b, field_index, type_id, value) ==
    LET e == ensure_field_index(b, field_index)
        b1 == e.b
        field_offset == b1.payload_offset
        len == Len(value)
        buf1 == reserve(b1.buffer, b1.payload_offset + 4 + len)
        w1 == write_u32(Limbs(len, 2), buf1, b1.payload_offset)
        w2 == copy_from_slice(w1.val, b1.payload_offset + 4, value)
    IN  IF ~IsOk(e.r) THEN e
        ELSE IF ~IsOk(w1) THEN [b |-> [b1 EXCEPT !.buffer = buf1], r |-> w1]
        ELSE IF ~IsOk(w2) THEN [b |-> [b1 EXCEPT !.buffer = w1.val], r |-> w2]
        ELSE [b |-> [set_field_entry(b1, field_index, type_id, field_offset)
                        EXCEPT !.buffer = w2.val,
                               !.payload_offset = @ + 4 + len],
              r |-> Ok(<<>>)]

set_string(b, field_index, value) ==
    set_length_prefixed(b, field_index, PrimitiveType.String, value)

set_bytes(b, field_index, value) ==
    set_length_prefixed(b, field_index, PrimitiveType.Bytes, value)

set_message(b, field_index, message) ==
    set_length_prefixed(b, field_index, PrimitiveType.Message, message)

\* write_elements with the fault of not advancing the offset
RECURSIVE Faulty_write_elements(_, _, _, _)
Faulty_write_elements(ty, values, buf, offset) ==
    IF values = <<>> THEN Ok(buf)
    ELSE LET w == ZpWrite(ty, Head(values), buf, offset)
         IN  IF ~IsOk(w) THEN w
             ELSE Faulty_write_elements(ty, Tail(values), w.val, offset)

\* for value in values { value.write(buf, offset)?; offset += value.size() }
RECURSIVE write_elements(_, _, _, _)
write_elements(ty, values, buf, offset) ==
    IF values = <<>> THEN Ok(buf)
    ELSE LET w == ZpWrite(ty, Head(values), buf, offset)
         IN  IF ~IsOk(w) THEN w
             ELSE write_elements(ty, Tail(values), w.val, offset + ZpSize(ty))

set_vector(b, field_index, ty, values) ==
    LET e == ensure_field_index(b, field_index)
        b1 == e.b
        field_offset == b1.payload_offset
        element_size == IF values = <<>> THEN 0 ELSE ZpSize(ty)
        total_size == 4 + Len(values) * element_size
        buf1 == reserve(b1.buffer, b1.payload_offset + total_size)
        w1 == write_u32(Limbs(Len(values), 2), buf1, b1.payload_offset)
        w2 == write_elements(ty, values, w1.val, b1.payload_offset + 4)
    IN  IF ~IsOk(e.r) THEN e
        ELSE IF ~IsOk(w1) THEN [b |-> [b1 EXCEPT !.buffer = buf1], r |-> w1]
        ELSE IF ~IsOk(w2) THEN [b |-> [b1 EXCEPT !.buffer = w1.val], r |-> w2]
        ELSE [b |-> [set_field_entry(b1, field_index, PrimitiveType.Vector, field_offset)
                        EXCEPT !.buffer = w2.val,
                               !.payload_offset = @ + total_size],
              r |-> Ok(<<>>)]

\* for i in (0..(current_payload_offset - 2)).rev()
\*     { buffer[2 + field_table_size + i] = buffer[2 + i] }
\* `n` iterations are left: i runs n-1, n-2, .., 0
RECURSIVE move_payload(_, _, _)
move_payload(buf, field_table_size, n) ==
    IF n = 0 THEN buf
    ELSE move_payload([buf EXCEPT ![2 + field_table_size + (n - 1) + 1] = buf[2 + (n - 1) + 1]],
                      field_table_size, n - 1)

\* for entry in &self.field_entries { buffer[o] = type_id; write_u32(offset, o + 1);
\*     o += FIELD_ENTRY_SIZE }, entry i (from 1) at o = 2 + 5 * (i - 1)
RECURSIVE write_field_table(_, _, _)
write_field_table(buf, entries, i) ==
    IF i > Len(entries) THEN buf
    ELSE LET o == 2 + (i - 1) * FIELD_ENTRY_SIZE
             b1 == [buf EXCEPT ![o + 1] = entries[i].type_id]
             b2 == write_u32(Limbs(entries[i].offset, 2), b1, o + 1)
         IN  write_field_table(b2.val, entries, i + 1)

\* finish with the fault of leaving the entries' offsets as they were set
Faulty_finish(b) ==
    LET buf0 == write_u16(Limbs(b.field_count, 1), b.buffer, 0).val
        field_table_size == b.field_count * FIELD_ENTRY_SIZE
        current_payload_offset == b.payload_offset
        buf1 == resize(buf0, current_payload_offset + field_table_size, 0)
        buf2 == move_payload(buf1, field_table_size, current_payload_offset - 2)
        buf3 == write_field_table(buf2, b.field_entries, 1)
    IN  resize(buf3, 2 + field_table_size + (current_payload_offset - 2), 0)

finish(b) ==
    LET buf0 == write_u16(Limbs(b.field_count, 1), b.buffer, 0).val
        field_table_size == b.field_count * FIELD_ENTRY_SIZE
        current_payload_offset == b.payload_offset
        buf1 == resize(buf0, current_payload_offset + field_table_size, 0)
        buf2 == move_payload(buf1, field_table_size, current_payload_offset - 2)
        entries == [i \in 1..Len(b.field_entries) |->
                       [b.field_entries[i] EXCEPT !.offset = @ + field_table_size]]
        buf3 == write_field_table(buf2, entries, 1)
    IN  resize(buf3, 2 + field_table_size + (current_payload_offset - 2), 0)

\* ------------------------------------------------------------------------
\* reader.rs: MessageReader [buffer, field_count] (field_table_offset is
\* always 2) and VectorReader [buffer, offset, count, ty].  A returned &str
\* or &[u8] is the record [ptr, bytes]: the slice's start inside the
\* reader's buffer and its content.
\* ------------------------------------------------------------------------
field_table_offset == 2

\* core::str::from_utf8(bytes).is_ok()
RECURSIVE from_utf8_ok(_)
from_utf8_ok(bytes) ==
    LET Cont(i) == i <= Len(bytes) /\ bytes[i] \in 128..191
        Rest(n) == from_utf8_ok(SubSeq(bytes, n + 1, Len(bytes)))
    IN  IF bytes = <<>> THEN TRUE
        ELSE LET c == bytes[1]
             IN  IF c <= 127 THEN Rest(1)
                 ELSE IF c \in 194..223 THEN Cont(2) /\ Rest(2)
                 ELSE IF c \in 224..239
                      THEN /\ Cont(2) /\ Cont(3)
                           /\ (c = 224 => bytes[2] >= 160)
                           /\ (c = 237 => bytes[2] <= 159)
                           /\ Rest(3)
                 ELSE IF c \in 240..244
                      THEN /\ Cont(2) /\ Cont(3) /\ Cont(4)
                           /\ (c = 240 => bytes[2] >= 144)
                           /\ (c = 244 => bytes[2] <= 143)
                           /\ Rest(4)
                 ELSE FALSE

\* MessageReader::new with the fault of leaving the 2 header bytes out of
\* the size check
Faulty_MessageReader_new(buffer) ==
    IF Len(buffer) < 2 THEN Err("InvalidMessage")
    ELSE LET field_count == AsUsize(read_u16(buffer, 0).val)
             field_table_size == field_count * FIELD_ENTRY_SIZE
         IN  IF Len(buffer) < field_table_size THEN Err("InvalidMessage")
             ELSE Ok([buffer |-> buffer, field_count |-> field_count])

MessageReader_new(buffer) ==
    IF Len(buffer) < 2 THEN Err("InvalidMessage")
    ELSE LET field_count == AsUsize(read_u16(buffer, 0).val)
             field_table_size == field_count * FIELD_ENTRY_SIZE
             total_header_size == 2 + field_table_size
         IN  IF Len(buffer) < total_header_size THEN Err("InvalidMessage")
             ELSE Ok([buffer |-> buffer, field_count |-> field_count])

\* field_entry with the fault of comparing the index with `>`
Faulty_field_entry(self, field_index) ==
    IF field_index > self.field_count THEN Err("OutOfBounds")
    ELSE LET entry_offset == field_table_offset + field_index * FIELD_ENTRY_SIZE
             type_id == read_u8(self.buffer, entry_offset)
             primitive_type == from_u8(type_id.val[1])
             offset == read_u32(self.buffer, entry_offset + 1)
         IN  IF ~IsOk(type_id) THEN Panic
             ELSE IF ~primitive_type.some THEN Err("InvalidFieldType")
             ELSE IF primitive_type.v = PrimitiveType.Unset THEN Ok(None)
             ELSE IF ~IsOk(offset) THEN Panic
             ELSE Ok(Some([ty |-> primitive_type.v, offset |-> AsUsize(offset.val)]))

field_entry(self, field_index) ==
    IF field_index >= self.field_count THEN Err("OutOfBounds")
    ELSE LET entry_offset == field_table_offset + field_index * FIELD_ENTRY_SIZE
             type_id == read_u8(self.buffer, entry_offset)
             primitive_type == from_u8(type_id.val[1])
             offset == read_u32(self.buffer, entry_offset + 1)
         IN  IF ~IsOk(type_id) THEN Panic
             ELSE IF ~primitive_type.some THEN Err("InvalidFieldType")
             ELSE IF primitive_type.v = PrimitiveType.Unset THEN Ok(None)
             ELSE IF ~IsOk(offset) THEN Panic
             ELSE Ok(Some([ty |-> primitive_type.v, offset |-> AsUsize(offset.val)]))

has_field(self, field_index) ==
    IF field_index >= self.field_count THEN Ok(FALSE)
    ELSE LET entry_offset == field_table_offset + field_index * FIELD_ENTRY_SIZE
             type_id == read_u8(self.buffer, entry_offset)
         IN  IF ~IsOk(type_id) THEN Panic
             ELSE Ok(type_id.val[1] # PrimitiveType.Unset)

\* `x.map(Some)` on a Result
MapSome(r) == IF IsOk(r) THEN Ok(Some(r.val)) ELSE r

\* ok_or with the fault of handing an absent field on as an empty value
Faulty_ok_or_MissingField(r) ==
    IF ~IsOk(r) THEN r
    ELSE IF r.val.some THEN Ok(r.val.v) ELSE Ok(<<>>)

\* `x?.ok_or(Error::MissingField)` on a Result<Option<_>>
ok_or_MissingField(r) ==
    IF ~IsOk(r) THEN r
    ELSE IF r.val.some THEN Ok(r.val.v) ELSE Err("MissingField")

try_get_scalar(self, ty, field_index) ==
    LET e == field_entry(self, field_index)
    IN  IF ~IsOk(e) THEN e
        ELSE IF e.val.some THEN MapSome(ZpRead(ty, self.buffer, e.val.v.offset))
        ELSE Ok(None)

get_scalar(self, ty, field_index) ==
    ok_or_MissingField(try_get_scalar(self, ty, field_index))

\* length_prefixed with the fault of leaving the kind check out
Faulty_length_prefixed(self, kind, field_index) ==
    LET e == field_entry(self, field_index)
    IN  IF ~IsOk(e) THEN e
        ELSE IF ~e.val.some THEN Ok(None)
        ELSE LET field_offset == e.val.v.offset
                 lenw == read_u32(self.buffer, field_offset)
             IN  IF ~IsOk(lenw) THEN Panic
                 ELSE LET len == AsUsize(lenw.val)
                          body_offset == field_offset + 4
                      IN  IF body_offset + len > Len(self.buffer) THEN Err("OutOfBounds")
                          ELSE Ok(Some([ptr |-> body_offset,
                                        bytes |-> Slice(self.buffer, body_offset,
                                                        body_offset + len)]))

\* the common part of try_get_string, try_get_bytes and try_get_message:
\* kind check, length word, range check; yields the body's [ptr, bytes]
length_prefixed(self, kind, field_index) ==
    LET e == field_entry(self, field_index)
    IN  IF ~IsOk(e) THEN e
        ELSE IF ~e.val.some THEN Ok(None)
        ELSE IF e.val.v.ty # kind THEN Err("InvalidFieldType")
        ELSE LET field_offset == e.val.v.offset
                 lenw == read_u32(self.buffer, field_offset)
             IN  IF ~IsOk(lenw) THEN Panic
                 ELSE LET len == AsUsize(lenw.val)
                          body_offset == field_offset + 4
                      IN  IF body_offset + len > Len(self.buffer) THEN Err("OutOfBounds")
                          ELSE Ok(Some([ptr |-> body_offset,
                                        bytes |-> Slice(self.buffer, body_offset,
                                                        body_offset + len)]))

try_get_string(self, field_index) ==
    LET s == length_prefixed(self, PrimitiveType.String, field_index)
    IN  IF ~IsOk(s) \/ ~s.val.some THEN s
        ELSE IF from_utf8_ok(s.val.v.bytes) THEN s ELSE Err("InvalidUtf8")

try_get_bytes(self, field_index) ==
    length_prefixed(self, PrimitiveType.Bytes, field_index)

\* try_get_message with the fault of giving the sub-reader the buffer from
\* the message's start to its end
Faulty_try_get_message(self, field_index) ==
    LET m == length_prefixed(self, PrimitiveType.Message, field_index)
    IN  IF ~IsOk(m) \/ ~m.val.some THEN m
        ELSE LET sub == MessageReader_new(
                            Slice(self.buffer, m.val.v.ptr, Len(self.buffer)))
             IN  IF ~IsOk(sub) THEN sub
                 ELSE Ok(Some([ptr |-> m.val.v.ptr, buffer |-> sub.val.buffer,
                               field_count |-> sub.val.field_count]))

\* the sub-reader is [ptr, buffer, field_count]: ptr is where its buffer
\* starts inside self.buffer
try_get_message(self, field_index) ==
    LET m == length_prefixed(self, PrimitiveType.Message, field_index)
    IN  IF ~IsOk(m) \/ ~m.val.some THEN m
        ELSE LET sub == MessageReader_new(m.val.v.bytes)
             IN  IF ~IsOk(sub) THEN sub
                 ELSE Ok(Some([ptr |-> m.val.v.ptr, buffer |-> sub.val.buffer,
                               field_count |-> sub.val.field_count]))

try_get_vector(self, ty, field_index) ==
    LET e == field_entry(self, field_index)
    IN  IF ~IsOk(e) THEN e
        ELSE IF ~e.val.some THEN Ok(None)
        ELSE IF e.val.v.ty # PrimitiveType.Vector THEN Err("InvalidFieldType")
        ELSE LET field_offset == e.val.v.offset
                 countw == read_u32(self.buffer, field_offset)
             IN  IF ~IsOk(countw) THEN Panic
                 ELSE LET count == AsUsize(countw.val)
                          vector_offset == field_offset + 4
                      IN  IF vector_offset + count * ZpSize(ty) > Len(self.buffer)
                          THEN Err("OutOfBounds")
                          ELSE Ok(Some([buffer |-> self.buffer, offset |-> vector_offset,
                                        count |-> count, ty |-> ty]))

get_string(self, field_index) == ok_or_MissingField(try_get_string(self, field_index))

get_bytes(self, field_index) == ok_or_MissingField(try_get_bytes(self, field_index))

get_message(self, field_index) == ok_or_MissingField(try_get_message(self, field_index))

get_vector(self, ty, field_index) == ok_or_MissingField(try_get_vector(self, ty, field_index))

\* VectorReader
VectorReader_len(vr) == vr.count

VectorReader_is_empty(vr) == vr.count = 0

\* VectorReader::get with the fault of not scaling the index by the element size
Faulty_VectorReader_get(vr, index) ==
    IF index >= vr.count THEN Err("OutOfBounds")
    ELSE ZpRead(vr.ty, vr.buffer, vr.offset + index)

VectorReader_get(vr, index) ==
    IF index >= vr.count THEN Err("OutOfBounds")
    ELSE ZpRead(vr.ty, vr.buffer, vr.offset + index * ZpSize(vr.ty))

\* (0..self.count).map(move |i| self.get(i)): the results the iterator yields
VectorReader_iter(vr) == [i \in 1..vr.count |-> VectorReader_get(vr, i - 1)]

\* (0..count).map(|i| self.get(i)).collect::<Result<Vec<T>>>(): the elements,
\* or the first failure; `i` is the next index
RECURSIVE collect_from(_, _, _)
collect_from(vr, i, acc) ==
    IF i >= vr.count THEN Ok(acc)
    ELSE LET x == VectorReader_get(vr, i)
         IN  IF ~IsOk(x) THEN x ELSE collect_from(vr, i + 1, Append(acc, x.val))

VectorReader_collect(vr) == collect_from(vr, 0, <<>>)

\* ------------------------------------------------------------------------
\* Bounds and inputs
\* ------------------------------------------------------------------------
\* set operations per builder
MaxSets == 2

\* field indices given to the builder (two small ones and the largest u16),
\* and to the reader's accessors
BuilderIndices == {0, 1, MAX_FIELDS}
ReaderIndices == {0, 1, 2}

\* sample values of each scalar type (bit patterns as limbs):
\* u8 200, 0; i8 -1, 1; bool true, false; u16 0x0102, 0xFF00; i16 -2, 3;
\* u32 42, 0x80000001; i32 -1, 0x01020304; f32 3.14, NaN 0x7FC00001;
\* u64 2^63 + 1, 42; i64 i64::MIN, 0x0102030405060708;
\* f64 3.14, NaN 0x7FF8000000000001
ScalarValues(ty) ==
    CASE ty = "u8" -> {<<200>>, <<0>>}
      [] ty = "i8" -> {<<255>>, <<1>>}
      [] ty = "bool" -> {<<1>>, <<0>>}
      [] ty = "u16" -> {<<258>>, <<65280>>}
      [] ty = "i16" -> {<<65534>>, <<3>>}
      [] ty = "u32" -> {<<42, 0>>, <<1, 32768>>}
      [] ty = "i32" -> {<<65535, 65535>>, <<772, 258>>}
      [] ty = "f32" -> {<<62915, 16456>>, <<1, 32704>>}
      [] ty = "u64" -> {<<1, 0, 0, 32768>>, <<42, 0, 0, 0>>}
      [] ty = "i64" -> {<<0, 0, 0, 32768>>, <<1800, 1286, 772, 258>>}
      [] ty = "f64" -> {<<34079, 20971, 7864, 16393>>, <<1, 0, 0, 32760>>}

\* a second scalar type, for reading a field as another type than written
OtherType(ty) == IF ty = "u8" THEN "u64" ELSE "u8"

\* "" and "h" followed by U+00E9 (two bytes)
StringValues == {<<>>, <<104, 195, 169>>}

BytesValues == {<<>>, <<255, 0>>}

\* element sequences of type ty: the empty one and one of two elements
VectorValues(ty) ==
    {<<>>} \cup {<<v, w>> : v \in {CHOOSE x \in ScalarValues(ty) : TRUE},
                            w \in ScalarValues(ty) \ {CHOOSE x \in ScalarValues(ty) : TRUE}}

\* nested messages: buffers a builder's finish produced
InnerMessages ==
    {finish(set_string(set_scalar(MessageBuilder_new, 0, "u16", <<513>>).b,
                       1, <<122>>).b)}

\* ------------------------------------------------------------------------
\* State
\* ------------------------------------------------------------------------
VARIABLES
    T,        \* the scalar type the generic calls are instantiated with
    builder,  \* the MessageBuilder
    writes,   \* history: the set operations that returned Ok, in order
    pc,       \* "building", "refused", "finished", "open", "nested", "rejected"
    data,     \* the byte buffer handed to MessageReader::new
    reader,   \* the MessageReader
    call,     \* the last call, [op, k, ty]
    res,      \* what the last call returned
    cpc,      \* the compiler's position in `compile`: "idle", "source",
              \* "parsed", "validated", "lowered"
    source,   \* the schema text handed to `compile`
    ast,      \* what `parse` returned, or the Schema handed to `validate`
    verdict,  \* what `validate` returned
    ir        \* what `lower_ast` returned

vars == <<T, builder, writes, pc, data, reader, call, res, cpc, source, ast, verdict, ir>>

NoReader == [buffer |-> <<>>, field_count |-> 0]
NoCall == [op |-> "none", k |-> 0, ty |-> "none"]
NoRes == [tag |-> "None"]



Init ==
    /\ T \in ScalarTypes
    /\ builder = MessageBuilder_new
    /\ writes = <<>>
    /\ pc = "building"
    /\ data = <<>>
    /\ reader = NoReader
    /\ call = NoCall
    /\ res = NoRes
    /\ cpc = "idle"
    /\ source = <<>>
    /\ ast = NoRes
    /\ verdict = NoRes
    /\ ir = NoRes

\* ------------------------------------------------------------------------
\* Builder actions
\* ------------------------------------------------------------------------
\* one set operation: `o` is what the operation yields on the builder
Set(op, k, ty, value, o) ==
    /\ pc = "building"
    /\ Len(writes) < MaxSets
    /\ builder' = o.b
    /\ call' = [op |-> op, k |-> k, ty |-> ty]
    /\ res' = o.r
    /\ writes' = IF IsOk(o.r)
                 THEN Append(writes, [op |-> op, k |-> k, ty |-> ty, value |-> value])
                 ELSE writes
    /\ UNCHANGED <<cpc, source, ast, verdict, ir, T, pc, data, reader>>

SetScalar ==
    \E k \in BuilderIndices, v \in ScalarValues(T) :
        Set("set_scalar", k, T, v, set_scalar(builder, k, T, v))

SetString ==
    \E k \in BuilderIndices, s \in StringValues :
        Set("set_string", k, "none", s, set_string(builder, k, s))

SetBytes ==
    \E k \in BuilderIndices, b \in BytesValues :
        Set("set_bytes", k, "none", b, set_bytes(builder, k, b))

SetMessage ==
    \E k \in BuilderIndices, m \in InnerMessages :
        Set("set_message", k, "none", m, set_message(builder, k, m))

SetVector ==
    \E k \in BuilderIndices, xs \in VectorValues(T) :
        Set("set_vector", k, T, xs, set_vector(builder, k, T, xs))

\* set_scalar with a value of a type that implements ZpWrite and is not one
\* of the eleven primitive types (type_name matches no arm of get_type_id).
\* The properties of finished buffers speak of successful set operations, so
\* a behaviour is not followed beyond a write refused in this way.
SetScalarRefused ==
    /\ pc = "building"
    /\ \E k \in BuilderIndices :
          LET o == set_scalar(builder, k, "other", <<>>)
          IN  /\ builder' = o.b
              /\ call' = [op |-> "set_scalar", k |-> k, ty |-> "other"]
              /\ res' = o.r
    /\ pc' = "refused"
    /\ UNCHANGED <<cpc, source, ast, verdict, ir, T, writes, data, reader>>

Finish ==
    /\ pc = "building"
    /\ data' = finish(builder)
    /\ pc' = "finished"
    /\ call' = [op |-> "finish", k |-> 0, ty |-> "none"]
    /\ res' = NoRes
    /\ UNCHANGED <<cpc, source, ast, verdict, ir, T, builder, writes, reader>>

\* ------------------------------------------------------------------------
\* Reader actions
\* ------------------------------------------------------------------------
Open ==
    /\ pc = "finished"
    /\ LET r == MessageReader_new(data)
       IN  /\ res' = r
           /\ reader' = IF IsOk(r) THEN r.val ELSE reader
           /\ pc' = IF IsOk(r) THEN "open" ELSE "rejected"
    /\ call' = [op |-> "new", k |-> 0, ty |-> "none"]
    /\ UNCHANGED <<cpc, source, ast, verdict, ir, T, builder, writes, data>>

ScalarOps == {"try_get_scalar", "get_scalar", "try_get_vector", "get_vector"}
PlainOps == {"has_field", "try_get_string", "get_string", "try_get_bytes", "get_bytes",
             "try_get_message", "get_message"}

\* the accessor call c on reader self
Accessor(self, c) ==
    CASE c.op = "has_field" -> has_field(self, c.k)
      [] c.op = "try_get_scalar" -> try_get_scalar(self, c.ty, c.k)
      [] c.op = "get_scalar" -> get_scalar(self, c.ty, c.k)
      [] c.op = "try_get_string" -> try_get_string(self, c.k)
      [] c.op = "get_string" -> get_string(self, c.k)
      [] c.op = "try_get_bytes" -> try_get_bytes(self, c.k)
      [] c.op = "get_bytes" -> get_bytes(self, c.k)
      [] c.op = "try_get_message" -> try_get_message(self, c.k)
      [] c.op = "get_message" -> get_message(self, c.k)
      [] c.op = "try_get_vector" -> try_get_vector(self, c.ty, c.k)
      [] c.op = "get_vector" -> get_vector(self, c.ty, c.k)

ReaderCalls(ty) ==
    [op : ScalarOps, k : ReaderIndices, ty : {ty, OtherType(ty)}]
        \cup [op : PlainOps, k : ReaderIndices, ty : {"none"}]

\* Accessors borrow the reader immutably (&self) and leave it as it is, so
\* what a call returns does not depend on the calls before it: a behaviour
\* makes its accessor call right after Open or Enter.
Read ==
    /\ pc \in {"open", "nested"}
    /\ call.op \in {"new", "enter"}
    /\ \E c \in ReaderCalls(T) :
        /\ call' = c
        /\ res' = Accessor(reader, c)
    /\ UNCHANGED <<cpc, source, ast, verdict, ir, T, builder, writes, pc, data, reader>>

\* a method of the VectorReader that get_vector has just returned
VectorCall ==
    /\ pc \in {"open", "nested"}
    /\ call.op = "get_vector"
    /\ IsOk(res)
    /\ \/ /\ call' = [call EXCEPT !.op = "VectorReader.len"]
          /\ res' = Ok(VectorReader_len(res.val))
       \/ /\ call' = [call EXCEPT !.op = "VectorReader.is_empty"]
          /\ res' = Ok(VectorReader_is_empty(res.val))
       \/ /\ call' = [call EXCEPT !.op = "VectorReader.collect"]
          /\ res' = VectorReader_collect(res.val)
       \/ /\ call' = [call EXCEPT !.op = "VectorReader.iter"]
          /\ res' = Ok(VectorReader_iter(res.val))
       \/ \E i \in 0..(res.val.count + 1) :
            /\ call' = [op |-> "VectorReader.get", k |-> call.k, ty |-> call.ty, index |-> i]
            /\ res' = VectorReader_get(res.val, i)
    /\ UNCHANGED <<cpc, source, ast, verdict, ir, T, builder, writes, pc, data, reader>>

\* continue with the sub-reader that get_message has just returned
Enter ==
    /\ pc \in {"open", "nested"}
    /\ call.op = "get_message"
    /\ IsOk(res)
    /\ reader' = [buffer |-> res.val.buffer, field_count |-> res.val.field_count]
    /\ pc' = "nested"
    /\ call' = [call EXCEPT !.op = "enter"]
    /\ res' = NoRes
    /\ UNCHANGED <<cpc, source, ast, verdict, ir, T, builder, writes, data>>

Next ==
    \/ SetScalar
    \/ SetString
    \/ SetBytes
    \/ SetMessage
    \/ SetVector
    \/ SetScalarRefused
    \/ Finish
    \/ Open
    \/ Read
    \/ VectorCall
    \/ Enter

Spec == Init /\ [][Next]_vars

\* ------------------------------------------------------------------------
\* The reader on arbitrary bytes: the buffer handed to MessageReader::new is
\* any byte sequence of up to MaxFuzzLen bytes over FuzzBytes, or a finished
\* message with one byte replaced by one of FuzzBytes, or cut short.
\* ------------------------------------------------------------------------
MaxFuzzLen == 3

FuzzBytes == {0, 3, 13, 15, 255}

RECURSIVE SeqsUpTo(_, _)
SeqsUpTo(S, n) ==
    IF n = 0 THEN {<<>>}
    ELSE LET shorter == SeqsUpTo(S, n - 1)
         IN  shorter \cup {Append(q, x) : q \in {q \in shorter : Len(q) = n - 1}, x \in S}

\* finished messages holding a field of every kind
FuzzSeeds(ty) ==
    LET v == CHOOSE x \in ScalarValues(ty) : TRUE
        xs == CHOOSE x \in VectorValues(ty) : x # <<>>
        m == CHOOSE x \in InnerMessages : TRUE
    IN  {finish(set_vector(set_string(MessageBuilder_new, 0, <<104, 195, 169>>).b,
                           1, ty, xs).b),
         finish(set_scalar(set_message(set_bytes(MessageBuilder_new, 0, <<255, 0>>).b,
                                       1, m).b, 2, ty, v).b)}

Mutations(seed) ==
    {[seed EXCEPT ![i] = x] : i \in 1..Len(seed), x \in FuzzBytes}
        \cup {SubSeq(seed, 1, n) : n \in 0..Len(seed)}

FuzzBuffers(ty) ==
    SeqsUpTo(FuzzBytes, MaxFuzzLen) \cup UNION {Mutations(seed) : seed \in FuzzSeeds(ty)}

InitFuzz ==
    /\ T \in ScalarTypes
    /\ builder = MessageBuilder_new
    /\ writes = <<>>
    /\ pc = "finished"
    /\ data \in FuzzBuffers(T)
    /\ reader = NoReader
    /\ call = NoCall
    /\ res = NoRes
    /\ cpc = "idle"
    /\ source = <<>>
    /\ ast = NoRes
    /\ verdict = NoRes
    /\ ir = NoRes

NextFuzz ==
    \/ Open
    \/ Read
    \/ VectorCall
    \/ Enter

SpecFuzz == InitFuzz /\ [][NextFuzz]_vars


\* ========================================================================
\* zeroproto-compiler: parser.rs, validator.rs, ir.rs
\*
\* A source text is a sequence of characters (strings of one character); a
\* name is the sequence of its characters.
\* ========================================================================
LowerCase ==
    <<"a", "b", "c", "d", "e", "f", "g", "h", "i", "j", "k", "l", "m", "n", "o", "p", "q", "r", "s", "t", "u", "v", "w", "x", "y", "z">>
UpperCase ==
    <<"A", "B", "C", "D", "E", "F", "G", "H", "I", "J", "K", "L", "M", "N", "O", "P", "Q", "R", "S", "T", "U", "V", "W", "X", "Y", "Z">>
\* char::is_alphabetic, on the characters of the model
Alphabetic == {LowerCase[i] : i \in 1..26} \cup {UpperCase[i] : i \in 1..26}
DigitChars == <<"0", "1", "2", "3", "4", "5", "6", "7", "8", "9">>
Digits == {DigitChars[i] : i \in 1..10}
\* char::is_alphanumeric, on the characters of the model
Alphanumeric == Alphabetic \cup Digits
Whitespace == {" ", "\t", "\n", "\r"}



\* `while i < chars.len() && pred(chars[i]) { i += 1 }`: where the loop ends
ScanWhile(chars, i, S) ==
    CHOOSE j \in i..Len(chars) :
        /\ j = Len(chars) \/ chars[j + 1] \notin S
        /\ \A m \in i..(j - 1) : chars[m + 1] \in S

\* `while i < chars.len() && chars[i] != stop { i += 1 }`
ScanTo(chars, i, stop) ==
    CHOOSE j \in i..Len(chars) :
        /\ j = Len(chars) \/ chars[j + 1] = stop
        /\ \A m \in i..(j - 1) : chars[m + 1] # stop

\* the block comment's loop, entered with i after the opening characters
ScanBlockComment(chars, i) ==
    CHOOSE j \in i..Len(chars) :
        /\ j + 1 >= Len(chars) \/ (chars[j + 1] = "*" /\ chars[j + 2] = "/")
        /\ \A m \in i..(j - 1) :
              m + 1 < Len(chars) /\ ~(chars[m + 1] = "*" /\ chars[m + 2] = "/")

\* the string literal's loop: a backslash skips the character after it
RECURSIVE ScanString(_, _)
ScanString(chars, i) ==
    IF i < Len(chars) /\ chars[i + 1] # "\""
    THEN IF chars[i + 1] = "\\" /\ i + 1 < Len(chars)
         THEN ScanString(chars, i + 2)
         ELSE ScanString(chars, i + 1)
    ELSE i

Token(kind, v) == [kind |-> kind, v |-> v]

\* digits without the leading zeros; digits without the trailing zeros
RECURSIVE StripLeading(_)
StripLeading(ds) ==
    IF ds # <<>> /\ Head(ds) = "0" THEN StripLeading(Tail(ds)) ELSE ds

RECURSIVE StripTrailing(_)
StripTrailing(ds) ==
    IF ds # <<>> /\ ds[Len(ds)] = "0" THEN StripTrailing(SubSeq(ds, 1, Len(ds) - 1))
    ELSE ds

\* a <= b for two numbers given by their digits without leading zeros
RECURSIVE DigitsLeq(_, _)
DigitsLeq(a, b) ==
    IF Len(a) # Len(b) THEN Len(a) < Len(b)
    ELSE IF a = <<>> THEN TRUE
    ELSE IF Head(a) # Head(b)
         THEN (CHOOSE i \in 1..10 : DigitChars[i] = Head(a))
                  < (CHOOSE i \in 1..10 : DigitChars[i] = Head(b))
    ELSE DigitsLeq(Tail(a), Tail(b))

\* str::parse::<i64> on an optional '-' and digits: the value as sign and
\* magnitude (digits without leading zeros, none for zero), or Err when
\* there is no digit or the value is outside i64
parse_i64(num_str) ==
    LET neg == num_str # <<>> /\ Head(num_str) = "-"
        ds == IF neg THEN Tail(num_str) ELSE num_str
        mag == StripLeading(ds)
        \* i64::MAX, and the magnitude of i64::MIN
        max == <<"9", "2", "2", "3", "3", "7", "2", "0", "3", "6", "8", "5", "4", "7", "7", "5", "8", "0", "7">>
        min == <<"9", "2", "2", "3", "3", "7", "2", "0", "3", "6", "8", "5", "4", "7", "7", "5", "8", "0", "8">>
    IN  IF ds = <<>> THEN Err("ParseIntError")
        ELSE IF ~DigitsLeq(mag, IF neg THEN min ELSE max)
             THEN Err("ParseIntError")
        ELSE Ok([neg |-> neg /\ mag # <<>>, mag |-> mag])

\* i64::to_string
i64_to_string(val) ==
    IF val.mag = <<>> THEN <<"0">>
    ELSE (IF val.neg THEN <<"-">> ELSE <<>>) \o val.mag

\* str::parse::<f64> on an optional '-', digits, '.', digits: Err when there
\* is no digit at all.  The value is held as sign, integer digits and
\* fraction digits, which names the f64 exactly for the short literals of
\* the model.
parse_f64(num_str) ==
    LET neg == num_str # <<>> /\ Head(num_str) = "-"
        body == IF neg THEN Tail(num_str) ELSE num_str
        dot == ScanTo(body, 0, ".")
        int == SubSeq(body, 1, dot)
        frac == SubSeq(body, dot + 2, Len(body))
    IN  IF int = <<>> /\ frac = <<>> THEN Err("ParseFloatError")
        ELSE Ok([neg |-> neg, int |-> StripLeading(int), frac |-> StripTrailing(frac)])

\* f64::to_string: the shortest decimal that reads back as the value
f64_to_string(val) ==
    (IF val.neg THEN <<"-">> ELSE <<>>)
        \o (IF val.int = <<>> THEN <<"0">> ELSE val.int)
        \o (IF val.frac = <<>> THEN <<>> ELSE <<".">> \o val.frac)

Keyword(ident) ==
    IF ident = <<"m", "e", "s", "s", "a", "g", "e">> THEN Token("Message", <<>>)
    ELSE IF ident = <<"e", "n", "u", "m">> THEN Token("Enum", <<>>)
    ELSE IF ident = <<"t", "r", "u", "e">> THEN Token("True", <<>>)
    ELSE IF ident = <<"f", "a", "l", "s", "e">> THEN Token("False", <<>>)
    ELSE Token("Identifier", ident)

Punctuation(c) ==
    CASE c = ":" -> "Colon" [] c = ";" -> "Semicolon" [] c = "{" -> "LeftBrace"
      [] c = "}" -> "RightBrace" [] c = "[" -> "LeftBracket" [] c = "]" -> "RightBracket"
      [] c = "=" -> "Equals" [] c = "," -> "Comma" [] c = "?" -> "Question"

\* the main loop's body with the fault of passing over a '/' that opens no
\* comment without moving the cursor
Faulty_tokenize_iteration(chars, i, tokens) ==
    LET c == chars[i + 1]
        Advance(j, ts) == [r |-> Ok(<<>>), i |-> j, tokens |-> ts]
    IN  IF c \in Whitespace THEN Advance(i + 1, tokens)
        ELSE IF c = "/" /\ i + 1 < Len(chars) /\ chars[i + 2] = "/"
             THEN Advance(ScanTo(chars, i, "\n"), tokens)
        ELSE IF c = "/" /\ i + 1 < Len(chars) /\ chars[i + 2] = "*"
             THEN Advance(ScanBlockComment(chars, i + 2) + 2, tokens)
        ELSE IF c \in Alphabetic \cup {"_"}
             THEN LET j == ScanWhile(chars, i, Alphanumeric \cup {"_"})
                  IN  Advance(j, Append(tokens, Keyword(Slice(chars, i, j))))
        ELSE IF c \in Digits \cup {"-"}
             THEN LET i1 == IF c = "-" THEN i + 1 ELSE i
                      i2 == ScanWhile(chars, i1, Digits)
                  IN  IF i2 < Len(chars) /\ chars[i2 + 1] = "."
                      THEN LET i3 == ScanWhile(chars, i2 + 1, Digits)
                               num == parse_f64(Slice(chars, i, i3))
                           IN  IF ~IsOk(num) THEN [r |-> Panic, i |-> i3, tokens |-> tokens]
                               ELSE Advance(i3, Append(tokens, Token("Float", num.val)))
                      ELSE LET num == parse_i64(Slice(chars, i, i2))
                           IN  IF ~IsOk(num) THEN [r |-> Panic, i |-> i2, tokens |-> tokens]
                               ELSE Advance(i2, Append(tokens, Token("Integer", num.val)))
        ELSE IF c \in {":", ";", "{", "}", "[", "]", "=", ",", "?"}
             THEN Advance(i + 1, Append(tokens, Token(Punctuation(c), <<>>)))
        ELSE IF c = "\""
             THEN LET j == ScanString(chars, i + 1)
                  IN  Advance(j + 1, Append(tokens, Token("StringLiteral", Slice(chars, i + 1, j))))
        ELSE IF c = "/" THEN Advance(i, tokens)
        ELSE [r |-> Err("Parse"), i |-> i, tokens |-> tokens]

\* one iteration of the main loop, at cursor i < chars.len(): the cursor and
\* the tokens after it, and r: Ok to go on, the Parse error returned, or the
\* panic of an `expect` (the cursor is then behind the number's characters)
tokenize_iteration(chars, i, tokens) ==
    LET c == chars[i + 1]
        Advance(j, ts) == [r |-> Ok(<<>>), i |-> j, tokens |-> ts]
    IN  IF c \in Whitespace THEN Advance(i + 1, tokens)
        ELSE IF c = "/" /\ i + 1 < Len(chars) /\ chars[i + 2] = "/"
             THEN Advance(ScanTo(chars, i, "\n"), tokens)
        ELSE IF c = "/" /\ i + 1 < Len(chars) /\ chars[i + 2] = "*"
             THEN Advance(ScanBlockComment(chars, i + 2) + 2, tokens)
        ELSE IF c \in Alphabetic \cup {"_"}
             THEN LET j == ScanWhile(chars, i, Alphanumeric \cup {"_"})
                  IN  Advance(j, Append(tokens, Keyword(Slice(chars, i, j))))
        ELSE IF c \in Digits \cup {"-"}
             THEN LET i1 == IF c = "-" THEN i + 1 ELSE i
                      i2 == ScanWhile(chars, i1, Digits)
                  IN  IF i2 < Len(chars) /\ chars[i2 + 1] = "."
                      THEN LET i3 == ScanWhile(chars, i2 + 1, Digits)
                               num == parse_f64(Slice(chars, i, i3))
                           IN  IF ~IsOk(num) THEN [r |-> Panic, i |-> i3, tokens |-> tokens]
                               ELSE Advance(i3, Append(tokens, Token("Float", num.val)))
                      ELSE LET num == parse_i64(Slice(chars, i, i2))
                           IN  IF ~IsOk(num) THEN [r |-> Panic, i |-> i2, tokens |-> tokens]
                               ELSE Advance(i2, Append(tokens, Token("Integer", num.val)))
        ELSE IF c \in {":", ";", "{", "}", "[", "]", "=", ",", "?"}
             THEN Advance(i + 1, Append(tokens, Token(Punctuation(c), <<>>)))
        ELSE IF c = "\""
             THEN LET j == ScanString(chars, i + 1)
                  IN  Advance(j + 1, Append(tokens, Token("StringLiteral", Slice(chars, i + 1, j))))
        ELSE [r |-> Err("Parse"), i |-> i, tokens |-> tokens]

\* `while i < chars.len()`, from cursor i on, `tokens` being pushed so far:
\* Ok(tokens), Err("Parse"), or Panic where an `expect` fails
RECURSIVE tokenize_from(_, _, _)
tokenize_from(chars, i, tokens) ==
    IF i >= Len(chars) THEN Ok(tokens)
    ELSE LET it == tokenize_iteration(chars, i, tokens)
         IN  IF ~IsOk(it.r) THEN it.r ELSE tokenize_from(chars, it.i, it.tokens)

tokenize(input) == tokenize_from(input, 0, <<>>)

\* ------------------------------------------------------------------------
\* parser.rs: the recursive-descent parser.  A parsing function is given the
\* tokens and the position and yields the Result (r) and the position after
\* it; a `?` hands a result that is not Ok on as it is.
\* ------------------------------------------------------------------------
at_end(tokens, position) == position >= Len(tokens)

peek(tokens, position) ==
    IF at_end(tokens, position) THEN Panic ELSE Ok(tokens[position + 1])

consume(tokens, position, expected) ==
    IF at_end(tokens, position) THEN [r |-> Err("Parse"), position |-> position]
    ELSE IF tokens[position + 1].kind = expected
         THEN [r |-> Ok(<<>>), position |-> position + 1]
         ELSE [r |-> Err("Parse"), position |-> position]

consume_identifier(tokens, position) ==
    IF at_end(tokens, position) THEN [r |-> Err("Parse"), position |-> position]
    ELSE IF tokens[position + 1].kind = "Identifier"
         THEN [r |-> Ok(tokens[position + 1].v), position |-> position + 1]
         ELSE [r |-> Err("Parse"), position |-> position]

consume_integer(tokens, position) ==
    IF at_end(tokens, position) THEN [r |-> Err("Parse"), position |-> position]
    ELSE IF tokens[position + 1].kind = "Integer"
         THEN [r |-> Ok(tokens[position + 1].v), position |-> position + 1]
         ELSE [r |-> Err("Parse"), position |-> position]

\* ast.rs: FieldType and ScalarType
Scalar(scalar_type) == [tag |-> "Scalar", scalar |-> scalar_type]
UserDefined(name) == [tag |-> "UserDefined", name |-> name]
Vector(inner) == [tag |-> "Vector", inner |-> inner]

\* ast.rs: Field, EnumVariant and the two kinds of SchemaItem, as records of
\* one shape
Field(name, field_type, optional, default_value) ==
    [name |-> name, field_type |-> field_type, optional |-> optional,
     default_value |-> default_value]
EnumVariant(name, value) == [name |-> name, value |-> value]
Message(name, fields) ==
    [kind |-> "Message", name |-> name, fields |-> fields, variants |-> <<>>]
Enum(name, variants) ==
    [kind |-> "Enum", name |-> name, fields |-> <<>>, variants |-> variants]

ScalarTypeOf(ident) ==
    CASE ident = <<"u", "8">> -> "u8"
      [] ident = <<"u", "1", "6">> -> "u16"
      [] ident = <<"u", "3", "2">> -> "u32"
      [] ident = <<"u", "6", "4">> -> "u64"
      [] ident = <<"i", "8">> -> "i8"
      [] ident = <<"i", "1", "6">> -> "i16"
      [] ident = <<"i", "3", "2">> -> "i32"
      [] ident = <<"i", "6", "4">> -> "i64"
      [] ident = <<"f", "3", "2">> -> "f32"
      [] ident = <<"f", "6", "4">> -> "f64"
      [] ident = <<"b", "o", "o", "l">> -> "bool"
      [] ident = <<"s", "t", "r", "i", "n", "g">> -> "string"
      [] ident = <<"b", "y", "t", "e", "s">> -> "bytes"
      [] OTHER -> "none"

\* a step of the parser gives [r, position]: what it returned and where the
\* parser then stands
Step(r, position) == [r |-> r, position |-> position]

\* `step?` followed by the rest of the function (parser.rs:221-223 and every
\* other `?` of the parser): an Err (or a panic) of the step is what the
\* function gives, otherwise the rest runs with what the step gave
Then(step, rest(_)) == IF ~IsOk(step.r) THEN step ELSE rest(step)

\* `if !self.at_end() && self.peek() == kind { self.consume(kind)?; true }
\* else { false }`
consume_if_next(tokens, position, kind) ==
    IF ~at_end(tokens, position) /\ tokens[position + 1].kind = kind
    THEN Step(Ok(TRUE), position + 1)
    ELSE Step(Ok(FALSE), position)

RECURSIVE parse_type(_, _)
parse_type(tokens, position) ==
    IF peek(tokens, position) = Panic THEN Step(Panic, position)
    ELSE IF peek(tokens, position).val.kind = "LeftBracket"
    THEN Then(consume(tokens, position, "LeftBracket"), LAMBDA open :
         Then(parse_type(tokens, open.position), LAMBDA inner :
         Then(consume(tokens, inner.position, "RightBracket"), LAMBDA close :
         Step(Ok(Vector(inner.r.val)), close.position))))
    ELSE Then(consume_identifier(tokens, position), LAMBDA ident :
         IF ScalarTypeOf(ident.r.val) = "none"
         THEN Step(Ok(UserDefined(ident.r.val)), ident.position)
         ELSE Step(Ok(Scalar(ScalarTypeOf(ident.r.val))), ident.position))

\* DefaultValue::Integer / Float / Bool / String


parse_default_value(tokens, position) ==
    IF at_end(tokens, position) THEN Step(Err("Parse"), position)
    ELSE CASE tokens[position + 1].kind = "Integer" ->
                Step(Ok([kind |-> "Integer", v |-> tokens[position + 1].v]), position + 1)
           [] tokens[position + 1].kind = "Float" ->
                Step(Ok([kind |-> "Float", v |-> tokens[position + 1].v]), position + 1)
           [] tokens[position + 1].kind = "True" ->
                Step(Ok([kind |-> "Bool", v |-> TRUE]), position + 1)
           [] tokens[position + 1].kind = "False" ->
                Step(Ok([kind |-> "Bool", v |-> FALSE]), position + 1)
           [] tokens[position + 1].kind = "StringLiteral" ->
                Step(Ok([kind |-> "String", v |-> tokens[position + 1].v]), position + 1)
           [] OTHER -> Step(Err("Parse"), position)

\* `if !self.at_end() && self.peek() == Token::Equals { consume;
\* Some(self.parse_default_value()?) } else { None }`
parse_optional_default(tokens, position) ==
    Then(consume_if_next(tokens, position, "Equals"), LAMBDA equals :
    IF equals.r.val
    THEN Then(parse_default_value(tokens, equals.position), LAMBDA default_value :
         Step(Ok(Some(default_value.r.val)), default_value.position))
    ELSE Step(Ok(None), equals.position))

\* Field { name, field_type, optional, default_value }
parse_field(tokens, position) ==
    Then(consume_identifier(tokens, position), LAMBDA name :
    Then(consume(tokens, name.position, "Colon"), LAMBDA colon :
    Then(parse_type(tokens, colon.position), LAMBDA field_type :
    Then(consume_if_next(tokens, field_type.position, "Question"), LAMBDA optional :
    Then(parse_optional_default(tokens, optional.position), LAMBDA default_value :
    Then(consume(tokens, default_value.position, "Semicolon"), LAMBDA semicolon :
    Step(Ok(Field(name.r.val, field_type.r.val, optional.r.val, default_value.r.val)),
         semicolon.position)))))))

\* `if self.peek() == Token::Comma { self.consume(Token::Comma)?; }`: peek
\* panics at the end of the tokens
consume_optional_comma(tokens, position) ==
    IF peek(tokens, position) = Panic THEN Step(Panic, position)
    ELSE IF peek(tokens, position).val.kind = "Comma" THEN consume(tokens, position, "Comma")
    ELSE Step(Ok(<<>>), position)

\* the loop of parse_message_fields, `fields` being pushed so far
RECURSIVE parse_message_fields(_, _, _)
parse_message_fields(tokens, position, fields) ==
    IF ~at_end(tokens, position) /\ tokens[position + 1].kind # "RightBrace"
    THEN Then(parse_field(tokens, position), LAMBDA f :
         Then(consume_optional_comma(tokens, f.position), LAMBDA comma :
         parse_message_fields(tokens, comma.position, Append(fields, f.r.val))))
    ELSE Step(Ok(fields), position)



\* SchemaItem::Message(Message { name, fields })
parse_message(tokens, position) ==
    Then(consume(tokens, position, "Message"), LAMBDA kw :
    Then(consume_identifier(tokens, kw.position), LAMBDA name :
    Then(consume(tokens, name.position, "LeftBrace"), LAMBDA open :
    Then(parse_message_fields(tokens, open.position, <<>>), LAMBDA fields :
    Then(consume(tokens, fields.position, "RightBrace"), LAMBDA close :
    Step(Ok(Message(name.r.val, fields.r.val)), close.position))))))

\* EnumVariant { name, value: Some(value) }
parse_enum_variant(tokens, position) ==
    Then(consume_identifier(tokens, position), LAMBDA name :
    Then(consume(tokens, name.position, "Equals"), LAMBDA equals :
    Then(consume_integer(tokens, equals.position), LAMBDA value :
    Then(consume(tokens, value.position, "Semicolon"), LAMBDA semicolon :
    Step(Ok(EnumVariant(name.r.val, Some(value.r.val))), semicolon.position)))))

RECURSIVE parse_enum_variants_from(_, _, _)
parse_enum_variants_from(tokens, position, variants) ==
    IF ~at_end(tokens, position) /\ tokens[position + 1].kind # "RightBrace"
    THEN Then(parse_enum_variant(tokens, position), LAMBDA v :
         parse_enum_variants_from(tokens, v.position, Append(variants, v.r.val)))
    ELSE Step(Ok(variants), position)

\* SchemaItem::Enum(Enum { name, variants })
parse_enum(tokens, position) ==
    Then(consume(tokens, position, "Enum"), LAMBDA kw :
    Then(consume_identifier(tokens, kw.position), LAMBDA name :
    Then(consume(tokens, name.position, "LeftBrace"), LAMBDA open :
    Then(parse_enum_variants_from(tokens, open.position, <<>>), LAMBDA variants :
    Then(consume(tokens, variants.position, "RightBrace"), LAMBDA close :
    Step(Ok(Enum(name.r.val, variants.r.val)), close.position))))))

\* the loop of SchemaParser::parse, `items` being pushed so far
RECURSIVE parse_items_from(_, _, _)
parse_items_from(tokens, position, items) ==
    IF at_end(tokens, position) THEN Step(Ok([items |-> items]), position)
    ELSE IF tokens[position + 1].kind = "Message"
    THEN Then(parse_message(tokens, position), LAMBDA item :
         parse_items_from(tokens, item.position, Append(items, item.r.val)))
    ELSE IF tokens[position + 1].kind = "Enum"
    THEN Then(parse_enum(tokens, position), LAMBDA item :
         parse_items_from(tokens, item.position, Append(items, item.r.val)))
    ELSE Step(Err("Parse"), position)

\* parser::parse: Ok(Schema), Err("Parse") or Panic
parse(input) ==
    IF ~IsOk(tokenize(input)) THEN tokenize(input)
    ELSE parse_items_from(tokenize(input).val, 0, <<>>).r

\* ------------------------------------------------------------------------
\* validator.rs.  A Schema is [items]; an item is [kind, name, fields,
\* variants] with kind "Message" or "Enum"; CompilerError::Validation(text)
\* is Err of the text without the names it quotes.
\* ------------------------------------------------------------------------


\* the first pass: the names of the items, `type_names` being the keys
\* inserted so far
RECURSIVE collect_type_names_from(_, _, _)
collect_type_names_from(items, i, type_names) ==
    IF i > Len(items) THEN Ok(type_names)
    ELSE IF items[i].name \in type_names THEN Err("Validation: Duplicate type name")
    ELSE collect_type_names_from(items, i + 1, type_names \cup {items[i].name})

collect_type_names(schema) == collect_type_names_from(schema.items, 1, {})

\* validate_field_type with the fault of not looking into a vector
Faulty_validate_field_type(type_names, field_type) ==
    CASE field_type.tag = "Scalar" -> Ok(<<>>)
      [] field_type.tag = "UserDefined" ->
            IF field_type.name \notin type_names
            THEN Err("Validation: Unknown type used in field")
            ELSE Ok(<<>>)
      [] field_type.tag = "Vector" -> Ok(<<>>)

RECURSIVE validate_field_type(_, _)
validate_field_type(type_names, field_type) ==
    CASE field_type.tag = "Scalar" -> Ok(<<>>)
      [] field_type.tag = "UserDefined" ->
            IF field_type.name \notin type_names
            THEN Err("Validation: Unknown type used in field")
            ELSE Ok(<<>>)
      [] field_type.tag = "Vector" ->
            LET inner == validate_field_type(type_names, field_type.inner)
            IN  IF ~IsOk(inner) THEN inner
                ELSE IF field_type.inner.tag = "Vector"
                     THEN Err("Validation: Nested vectors are not allowed")
                     ELSE Ok(<<>>)



\* the first index of 1..n at which P holds, 0 when there is none; P is a
\* function on 1..n
FirstIndex(n, P) ==
    IF \E i \in 1..n : P[i] THEN CHOOSE i \in 1..n : P[i] /\ \A j \in 1..(i - 1) : ~P[j]
    ELSE 0

validate_message(type_names, message) ==
    LET fields == message.fields
        n == Len(fields)
        reserved == {<<"t", "y", "p", "e">>, <<"i", "d">>, <<"d", "a", "t", "a">>, <<"b", "u", "f", "f", "e", "r">>}
        bad_type == FirstIndex(n, [i \in 1..n |->
                                       ~IsOk(validate_field_type(type_names,
                                                                 fields[i].field_type))])
    IN  IF \E i \in 1..n : fields[i].name \in reserved
        THEN Err("Validation: Field name is reserved")
        ELSE IF bad_type # 0
        THEN validate_field_type(type_names, fields[bad_type].field_type)
        ELSE IF \E i, j \in 1..n : i < j /\ fields[i].name = fields[j].name
        THEN Err("Validation: Duplicate field name")
        ELSE Ok(<<>>)

\* the decimal digits of a usize; an index `i as i64`
RECURSIVE DecDigits(_)
DecDigits(n) ==
    IF n < 10 THEN <<DigitChars[n + 1]>>
    ELSE DecDigits(n \div 10) \o <<DigitChars[(n % 10) + 1]>>

as_i64(i) == [neg |-> FALSE, mag |-> IF i = 0 THEN <<>> ELSE DecDigits(i)]

\* variant.value.unwrap_or(i as i64), i the 0-based position
VariantValue(variants, i) ==
    IF variants[i].value.some THEN variants[i].value.v ELSE as_i64(i - 1)



\* validate_enum with the fault of comparing the explicit values only
Faulty_validate_enum(enum_def) ==
    LET variants == enum_def.variants
        n == Len(variants)
        reserved == {<<"R", "e", "s", "u", "l", "t">>, <<"O", "p", "t", "i", "o", "n">>, <<"S", "t", "a", "t", "u", "s">>}
    IN  IF \E i, j \in 1..n : i < j /\ variants[i].name = variants[j].name
        THEN Err("Validation: Duplicate variant name")
        ELSE IF \E i, j \in 1..n : /\ i < j
                                   /\ variants[i].value.some /\ variants[j].value.some
                                   /\ variants[i].value.v = variants[j].value.v
        THEN Err("Validation: Duplicate enum value")
        ELSE IF enum_def.name \in reserved
        THEN Err("Validation: Enum name is reserved")
        ELSE Ok(<<>>)

validate_enum(enum_def) ==
    LET variants == enum_def.variants
        n == Len(variants)
        reserved == {<<"R", "e", "s", "u", "l", "t">>, <<"O", "p", "t", "i", "o", "n">>, <<"S", "t", "a", "t", "u", "s">>}
    IN  IF \E i, j \in 1..n : i < j /\ variants[i].name = variants[j].name
        THEN Err("Validation: Duplicate variant name")
        ELSE IF \E i, j \in 1..n :
                    i < j /\ VariantValue(variants, i) = VariantValue(variants, j)
        THEN Err("Validation: Duplicate enum value")
        ELSE IF enum_def.name \in reserved
        THEN Err("Validation: Enum name is reserved")
        ELSE Ok(<<>>)

validate_item(type_names, item) ==
    IF item.kind = "Message" THEN validate_message(type_names, item) ELSE validate_enum(item)

\* the validator with the fault of resolving a name against the items
\* declared before its use only
Faulty_validate(schema) ==
    LET names == collect_type_names(schema)
        n == Len(schema.items)
        before(i) == {schema.items[j].name : j \in 1..(i - 1)}
        bad == FirstIndex(n, [i \in 1..n |->
                                  ~IsOk(validate_item(before(i), schema.items[i]))])
    IN  IF ~IsOk(names) THEN names
        ELSE IF bad # 0 THEN validate_item(before(bad), schema.items[bad])
        ELSE Ok(<<>>)

\* validator::validate: the first pass, then the items in order, stopping at
\* the first failure
validate(schema) ==
    LET names == collect_type_names(schema)
        n == Len(schema.items)
        bad == FirstIndex(n, [i \in 1..n |->
                                  ~IsOk(validate_item(names.val, schema.items[i]))])
    IN  IF ~IsOk(names) THEN names
        ELSE IF bad # 0 THEN validate_item(names.val, schema.items[bad])
        ELSE Ok(<<>>)

\* ------------------------------------------------------------------------
\* ir.rs: lowering
\* ------------------------------------------------------------------------
to_ascii_uppercase(ch) ==
    IF \E i \in 1..26 : LowerCase[i] = ch
    THEN UpperCase[CHOOSE i \in 1..26 : LowerCase[i] = ch]
    ELSE ch

to_ascii_lowercase(ch) ==
    IF \E i \in 1..26 : UpperCase[i] = ch
    THEN LowerCase[CHOOSE i \in 1..26 : UpperCase[i] = ch]
    ELSE ch

\* to_pascal_case from character i on
RECURSIVE to_pascal_case_from(_, _, _, _)
to_pascal_case_from(input, i, capitalize_next, result) ==
    IF i > Len(input) THEN result
    ELSE IF input[i] = "_" THEN to_pascal_case_from(input, i + 1, TRUE, result)
    ELSE IF capitalize_next
         THEN to_pascal_case_from(input, i + 1, FALSE,
                                  Append(result, to_ascii_uppercase(input[i])))
         ELSE to_pascal_case_from(input, i + 1, FALSE, Append(result, input[i]))

to_pascal_case(input) == to_pascal_case_from(input, 1, TRUE, <<>>)

\* to_snake_case from character i on (i is 1-based here, `i > 0` is i > 1)
RECURSIVE to_snake_case_from(_, _, _, _)
to_snake_case_from(input, i, prev_char_was_upper, result) ==
    IF i > Len(input)
    THEN IF result # <<>> /\ result[Len(result)] = "_"
         THEN SubSeq(result, 1, Len(result) - 1)
         ELSE result
    ELSE IF \E u \in 1..26 : UpperCase[u] = input[i]
         THEN to_snake_case_from(
                  input, i + 1, TRUE,
                  (IF i > 1 /\ ~prev_char_was_upper THEN Append(result, "_") ELSE result)
                      \o <<to_ascii_lowercase(input[i])>>)
         ELSE to_snake_case_from(input, i + 1, FALSE, Append(result, input[i]))

to_snake_case(input) == to_snake_case_from(input, 1, FALSE, <<>>)

\* ScalarType::rust_type and ScalarType::primitive_type_id
rust_type(scalar_type) ==
    CASE scalar_type = "string" -> <<"&", "'", "a", " ", "s", "t", "r">>
      [] scalar_type = "bytes" -> <<"&", "'", "a", " ", "[", "u", "8", "]">>
      [] scalar_type = "u8" -> <<"u", "8">> [] scalar_type = "u16" -> <<"u", "1", "6">>
      [] scalar_type = "u32" -> <<"u", "3", "2">> [] scalar_type = "u64" -> <<"u", "6", "4">>
      [] scalar_type = "i8" -> <<"i", "8">> [] scalar_type = "i16" -> <<"i", "1", "6">>
      [] scalar_type = "i32" -> <<"i", "3", "2">> [] scalar_type = "i64" -> <<"i", "6", "4">>
      [] scalar_type = "f32" -> <<"f", "3", "2">> [] scalar_type = "f64" -> <<"f", "6", "4">>
      [] scalar_type = "bool" -> <<"b", "o", "o", "l">>

primitive_type_id(scalar_type) ==
    CASE scalar_type = "u8" -> 0 [] scalar_type = "u16" -> 1 [] scalar_type = "u32" -> 2
      [] scalar_type = "u64" -> 3 [] scalar_type = "i8" -> 4 [] scalar_type = "i16" -> 5
      [] scalar_type = "i32" -> 6 [] scalar_type = "i64" -> 7 [] scalar_type = "f32" -> 8
      [] scalar_type = "f64" -> 9 [] scalar_type = "bool" -> 10
      [] scalar_type = "string" -> 11 [] scalar_type = "bytes" -> 12

\* lower_field_type with the fault of overlooking an enum that has no variants
RECURSIVE Faulty_lower_field_type(_, _)
Faulty_lower_field_type(field_type, enums) ==
    CASE field_type.tag = "Scalar" ->
            Ok([tag |-> "Scalar", scalar_type |-> field_type.scalar,
                rust_type |-> rust_type(field_type.scalar),
                primitive_id |-> primitive_type_id(field_type.scalar)])
      [] field_type.tag = "UserDefined" ->
            Ok([tag |-> "UserDefined", type_name |-> field_type.name,
                rust_type |-> to_pascal_case(field_type.name),
                is_message |-> ~\E i \in 1..Len(enums) : enums[i].variants # <<>> /\ enums[i].name = field_type.name])
      [] field_type.tag = "Vector" ->
            LET element_type == Faulty_lower_field_type(field_type.inner, enums)
            IN  IF ~IsOk(element_type) THEN element_type
                ELSE IF element_type.val.tag = "Vector" THEN Panic
                ELSE Ok([tag |-> "Vector", element_type |-> element_type.val,
                         rust_type |->
                             <<"V", "e", "c", "t", "o", "r", "R", "e", "a", "d", "e", "r", "<", "'", "a", ",", " ">> \o element_type.val.rust_type
                                 \o (IF element_type.val.tag = "UserDefined"
                                         /\ element_type.val.is_message
                                     THEN <<"R", "e", "a", "d", "e", "r", "<", "'", "a", ">">> ELSE <<>>)
                                 \o <<">">>,
                         reader_type |-> <<"V", "e", "c", "t", "o", "r", "R", "e", "a", "d", "e", "r", "<", "'", "a", ",", " ", "_", ">">>])


\* IrFieldType, or Panic on a vector of vectors; `enums` are the lowered
\* enums
RECURSIVE lower_field_type(_, _)
lower_field_type(field_type, enums) ==
    CASE field_type.tag = "Scalar" ->
            Ok([tag |-> "Scalar", scalar_type |-> field_type.scalar,
                rust_type |-> rust_type(field_type.scalar),
                primitive_id |-> primitive_type_id(field_type.scalar)])
      [] field_type.tag = "UserDefined" ->
            Ok([tag |-> "UserDefined", type_name |-> field_type.name,
                rust_type |-> to_pascal_case(field_type.name),
                is_message |-> ~\E i \in 1..Len(enums) : enums[i].name = field_type.name])
      [] field_type.tag = "Vector" ->
            LET element_type == lower_field_type(field_type.inner, enums)
            IN  IF ~IsOk(element_type) THEN element_type
                ELSE IF element_type.val.tag = "Vector" THEN Panic
                ELSE Ok([tag |-> "Vector", element_type |-> element_type.val,
                         rust_type |->
                             <<"V", "e", "c", "t", "o", "r", "R", "e", "a", "d", "e", "r", "<", "'", "a", ",", " ">> \o element_type.val.rust_type
                                 \o (IF element_type.val.tag = "UserDefined"
                                         /\ element_type.val.is_message
                                     THEN <<"R", "e", "a", "d", "e", "r", "<", "'", "a", ">">> ELSE <<>>)
                                 \o <<">">>,
                         reader_type |-> <<"V", "e", "c", "t", "o", "r", "R", "e", "a", "d", "e", "r", "<", "'", "a", ",", " ", "_", ">">>])

lower_default_value(default) ==
    CASE default.kind = "Integer" -> i64_to_string(default.v)
      [] default.kind = "Float" ->
            LET s == f64_to_string(default.v)
            IN  IF \E i \in 1..Len(s) : s[i] = "." THEN s ELSE s \o <<".", "0">>
      [] default.kind = "Bool" -> IF default.v THEN <<"t", "r", "u", "e">> ELSE <<"f", "a", "l", "s", "e">>
      [] default.kind = "String" -> <<"\"">> \o default.v \o <<"\"">>

lower_enum(enum_def) ==
    [name |-> enum_def.name,
     rust_name |-> to_pascal_case(enum_def.name),
     variants |-> [i \in 1..Len(enum_def.variants) |->
                      [name |-> enum_def.variants[i].name,
                       rust_name |-> to_pascal_case(enum_def.variants[i].name),
                       value |-> VariantValue(enum_def.variants, i)]]]

\* lower_message with the fault of numbering the fields from 1
Faulty_lower_message(message, enums) ==
    LET rust_name == to_pascal_case(message.name)
        n == Len(message.fields)
        types == [i \in 1..n |-> lower_field_type(message.fields[i].field_type, enums)]
    IN  IF \E i \in 1..n : ~IsOk(types[i]) THEN Panic
        ELSE Ok([name |-> message.name,
                 rust_name |-> rust_name,
                 fields |-> [i \in 1..n |->
                     [name |-> message.fields[i].name,
                      rust_name |-> to_snake_case(message.fields[i].name),
                      field_type |-> types[i].val,
                      index |-> i % 65536,
                      offset_constant |-> <<"F", "I", "E", "L", "D", "_">> \o DecDigits(i) \o <<"_", "O", "F", "F", "S", "E", "T">>,
                      optional |-> message.fields[i].optional,
                      default_value |->
                          IF message.fields[i].default_value.some
                          THEN Some(lower_default_value(message.fields[i].default_value.v))
                          ELSE None]],
                 reader_name |-> rust_name \o <<"R", "e", "a", "d", "e", "r">>,
                 builder_name |-> rust_name \o <<"B", "u", "i", "l", "d", "e", "r">>])

\* IrMessage, or Panic when a field type's lowering panics; the i-th field
\* (1-based here) has the index `(i - 1) as u16`
lower_message(message, enums) ==
    LET rust_name == to_pascal_case(message.name)
        n == Len(message.fields)
        types == [i \in 1..n |-> lower_field_type(message.fields[i].field_type, enums)]
    IN  IF \E i \in 1..n : ~IsOk(types[i]) THEN Panic
        ELSE Ok([name |-> message.name,
                 rust_name |-> rust_name,
                 fields |-> [i \in 1..n |->
                     [name |-> message.fields[i].name,
                      rust_name |-> to_snake_case(message.fields[i].name),
                      field_type |-> types[i].val,
                      index |-> (i - 1) % 65536,
                      offset_constant |-> <<"F", "I", "E", "L", "D", "_">> \o DecDigits(i - 1) \o <<"_", "O", "F", "F", "S", "E", "T">>,
                      optional |-> message.fields[i].optional,
                      default_value |->
                          IF message.fields[i].default_value.some
                          THEN Some(lower_default_value(message.fields[i].default_value.v))
                          ELSE None]],
                 reader_name |-> rust_name \o <<"R", "e", "a", "d", "e", "r">>,
                 builder_name |-> rust_name \o <<"B", "u", "i", "l", "d", "e", "r">>])

\* Schema::enums and Schema::messages: the items of one kind, in order
RECURSIVE ItemsOfKind(_, _)
ItemsOfKind(items, kind) ==
    IF items = <<>> THEN <<>>
    ELSE (IF Head(items).kind = kind THEN <<Head(items)>> ELSE <<>>)
             \o ItemsOfKind(Tail(items), kind)

\* lower_ast: Ok(IrSchema), or Panic
lower_ast(schema) ==
    LET es == ItemsOfKind(schema.items, "Enum")
        ms == ItemsOfKind(schema.items, "Message")
        enums == [i \in 1..Len(es) |-> lower_enum(es[i])]
        messages == [i \in 1..Len(ms) |-> lower_message(ms[i], enums)]
    IN  IF \E i \in 1..Len(ms) : ~IsOk(messages[i]) THEN Panic
        ELSE Ok([messages |-> [i \in 1..Len(ms) |-> messages[i].val], enums |-> enums])

\* ------------------------------------------------------------------------
\* The compiler's inputs: schema texts, and Schema values built directly
\* (validate and lower_ast are public functions of the crate).
\* ------------------------------------------------------------------------
S6Text ==
    <<"m", "e", "s", "s", "a", "g", "e", " ", "U", " ", "{", " ", "x", ":", "u", "6", "4", ";", " ", "y", ":", "s", "t", "r", "i", "n", "g", "?", ";", " ", "z", ":", "u", "3", "2", "=", "3", ";", " ", "}">>

\* the seed texts, and every seed cut short
SourceTexts ==
    UNION {{SubSeq(t, 1, n) : n \in 0..Len(t)} : t \in
    {S6Text,
     <<"e", "n", "u", "m", " ", "E", " ", "{", " ", "P", " ", "=", " ", "1", ";", " ", "}", " ", "m", "e", "s", "s", "a", "g", "e", " ", "M", " ", "{", " ", "e", ":", " ", "[", "E", "]", ";", " ", "}">>,
     <<"m", "e", "s", "s", "a", "g", "e", " ", "D", "{", "a", ":", "i", "8", "=", "-", "7", ";", "b", ":", "f", "3", "2", "=", "-", ".", "5", ";", "c", ":", "b", "o", "o", "l", "=", "t", "r", "u", "e", ";", " ", "}">>,
     <<"m", "e", "s", "s", "a", "g", "e", " ", "W", " ", "{", " ", "w", ":", " ", "i", "6", "4", " ", "=", " ", "9", "2", "2", "3", "3", "7", "2", "0", "3", "6", "8", "5", "4", "7", "7", "5", "8", "0", "8", ";", " ", "}">>,
     <<"/", "/", " ", "c", "\n", "m", "e", "s", "s", "a", "g", "e", " ", "s", "_", "t", " ", "{", " ", "m", "y", "I", "d", ":", " ", "[", "s", "_", "t", "]", " ", "=", " ", "\"", "h", "\"", ";", " ", "}">>,
     <<"m", "e", "s", "s", "a", "g", "e", " ", "N", "{", "A", "b", ":", "u", "8", ";", "a", "_", "B", ":", "u", "8", ";", "x", "1", "B", ":", "u", "8", ";", "I", "D", ":", "u", "8", ";", "z", "_", ":", "u", "8", ";", "}">>,
     <<"m", "e", "s", "s", "a", "g", "e", " ", "A", " ", "{", " ", "}", " ", "/", "*", " ", "c", " ", "*", "/">>,
     <<"m", "e", "s", "s", "a", "g", "e", " ", "B", "{", "s", ":", "s", "t", "r", "i", "n", "g", "=", "\"", "a", "\\", "\"", "b", "\"", ";", "}">>,
     <<"e", "n", "u", "m", " ", "p", "_", "q", "{", "a", "_", "b", "=", "1", ";", "A", "B", "=", "2", ";", "}", "m", "e", "s", "s", "a", "g", "e", " ", "P", "Q", "{", "a", "B", ":", "u", "8", ";", "a", "_", "b", ":", "u", "8", ";", "}">>}}

MaxItems == 2
MaxMembers == 2

\* the messages and enums with up to n fields or variants
Items(n) ==
    LET names == {<<"A">>, <<"B">>, <<"S", "t", "a", "t", "u", "s">>}
        field_types == {Scalar("u8"), UserDefined(<<"A">>), Vector(UserDefined(<<"B">>)),
                        Vector(Vector(Scalar("u8")))}
        fields == {Field(name, field_type, FALSE, None) :
                       name \in {<<"x">>, <<"i", "d">>}, field_type \in field_types}
        variants == {EnumVariant(name, value) :
                         name \in {<<"P">>, <<"Q">>}, value \in {None, Some(as_i64(1))}}
    IN  {Message(name, fs) : name \in names, fs \in SeqsUpTo(fields, n)}
            \cup {Enum(name, vs) : name \in names, vs \in SeqsUpTo(variants, n)}

\* up to MaxItems items of at most one member each, or one item of up to
\* MaxMembers members
Schemas ==
    {[items |-> items] : items \in SeqsUpTo(Items(1), MaxItems)
                                       \cup {<<item>> : item \in Items(MaxMembers)}}

\* ------------------------------------------------------------------------
\* lib.rs compile: parse, validate, lower_ast, each step taken only when the
\* one before it returned Ok
\* ------------------------------------------------------------------------


InitCompile ==
    /\ T = "u8"
    /\ builder = MessageBuilder_new
    /\ writes = <<>>
    /\ pc = "idle"
    /\ data = <<>>
    /\ reader = NoReader
    /\ call = NoCall
    /\ res = NoRes
    /\ verdict = NoRes
    /\ ir = NoRes
    /\ \/ /\ cpc = "source"
          /\ source \in SourceTexts
          /\ ast = NoRes
       \/ /\ cpc = "parsed"
          /\ source = <<>>
          /\ ast \in {Ok(schema) : schema \in Schemas}

Parse ==
    /\ cpc = "source"
    /\ ast' = parse(source)
    /\ cpc' = "parsed"
    /\ UNCHANGED <<T, builder, writes, pc, data, reader, call, res, source, verdict, ir>>

Validate ==
    /\ cpc = "parsed"
    /\ IsOk(ast)
    /\ verdict' = validate(ast.val)
    /\ cpc' = "validated"
    /\ UNCHANGED <<T, builder, writes, pc, data, reader, call, res, source, ast, ir>>

Lower ==
    /\ cpc = "validated"
    /\ IsOk(verdict)
    /\ ir' = lower_ast(ast.val)
    /\ cpc' = "lowered"
    /\ UNCHANGED <<T, builder, writes, pc, data, reader, call, res, source, ast, verdict>>

NextCompile ==
    \/ Parse
    \/ Validate
    \/ Lower

SpecCompile == InitCompile /\ [][NextCompile]_vars

\* ------------------------------------------------------------------------
\* What the properties below speak of: the wire format's tables and the
\* history of writes
\* ------------------------------------------------------------------------
\* type_id and payload width of a scalar type on the wire
WireTypeId(ty) ==
    CASE ty = "u8" -> 0 [] ty = "u16" -> 1 [] ty = "u32" -> 2 [] ty = "u64" -> 3
      [] ty = "i8" -> 4 [] ty = "i16" -> 5 [] ty = "i32" -> 6 [] ty = "i64" -> 7
      [] ty = "f32" -> 8 [] ty = "f64" -> 9 [] ty = "bool" -> 10

WireWidth(ty) ==
    CASE ty \in {"u8", "i8", "bool"} -> 1 [] ty \in {"u16", "i16"} -> 2
      [] ty \in {"u32", "i32", "f32"} -> 4 [] ty \in {"u64", "i64", "f64"} -> 8

\* a number that is at least 65536, above every buffer length of the model
TooBig == 256 * 256

\* the u16 at byte o of buf, and the u32 at byte o of buf (TooBig if 65536 or more)
U16At(buf, o) == buf[o + 1] + 256 * buf[o + 2]
U32At(buf, o) ==
    IF buf[o + 3] # 0 \/ buf[o + 4] # 0 THEN TooBig ELSE U16At(buf, o)

\* entry k of the field table of buf
EntryTypeId(buf, k) == buf[2 + 5 * k + 1]
EntryOffset(buf, k) == U32At(buf, 2 + 5 * k + 1)

\* the writes to index k, the last of them, and the largest index set plus one
WritesTo(k) == {i \in 1..Len(writes) : writes[i].k = k}
Written(k) == WritesTo(k) # {}
LastWriteIndex(k) == CHOOSE i \in WritesTo(k) : \A j \in WritesTo(k) : j <= i
LastWrite(k) == writes[LastWriteIndex(k)]
HighWater ==
    IF writes = <<>> THEN 0
    ELSE 1 + (CHOOSE k \in {writes[i].k : i \in 1..Len(writes)} :
                  \A i \in 1..Len(writes) : writes[i].k <= k)

\* payload bytes one write appends, and where the i-th write's payload starts
\* in the payload region
PayloadSize(w) ==
    CASE w.op = "set_scalar" -> WireWidth(w.ty)
      [] w.op = "set_vector" -> 4 + Len(w.value) * WireWidth(w.ty)
      [] OTHER -> 4 + Len(w.value)

RECURSIVE PayloadPos(_)
PayloadPos(i) == IF i = 1 THEN 0 ELSE PayloadPos(i - 1) + PayloadSize(writes[i - 1])

TotalPayload == PayloadPos(Len(writes) + 1)

ErrorKinds ==
    {"OutOfBounds", "InvalidFieldType", "InvalidUtf8", "InvalidFormat", "InvalidMessage",
     "MissingField"}

TryOps == {"try_get_scalar", "try_get_string", "try_get_bytes", "try_get_message",
           "try_get_vector"}
StrictOps == {"get_scalar", "get_string", "get_bytes", "get_message", "get_vector"}

\* ------------------------------------------------------------------------
\* C1.  Fuzz robustness of the reader: on any byte sequence, MessageReader::new
\* and every accessor and VectorReader method return a value or a typed
\* Error; no call panics.
\* ------------------------------------------------------------------------
C1_NoPanic ==
    /\ res.tag \in {"Ok", "Err", "None"}
    /\ res.tag = "Err" => res.err \in ErrorKinds

\* ------------------------------------------------------------------------
\* C2.  Scalar round trip: when the last write to index k is set_scalar(k, v)
\* of type T, then after finish and MessageReader::new, get_scalar::<T>(k)
\* returns exactly v, whatever was written to other indices before or after.
\* ------------------------------------------------------------------------
C2_ScalarRoundTrip ==
    (/\ pc = "open"
     /\ call.op = "get_scalar"
     /\ Written(call.k)
     /\ LastWrite(call.k).op = "set_scalar"
     /\ LastWrite(call.k).ty = call.ty)
    => res = Ok(LastWrite(call.k).value)

\* k was written first, another index after it, and k's value was read back
C2_Witness ==
    /\ pc = "open"
    /\ call.op = "get_scalar"
    /\ Len(writes) = 2
    /\ writes[1].op = "set_scalar" /\ writes[1].k = call.k /\ writes[1].ty = call.ty
    /\ writes[2].k # call.k
    /\ res = Ok(writes[1].value)

\* ------------------------------------------------------------------------
\* C3.  Gaps are Unset: an index j below the largest index set that was
\* never set has type_id 255 in the finished buffer, has_field(j) is false,
\* every try accessor returns None and every strict accessor MissingField.
\* ------------------------------------------------------------------------
C3_GapsAreUnset ==
    /\ pc = "finished" =>
          \A j \in 0..(HighWater - 1) : ~Written(j) => EntryTypeId(data, j) = 255
    /\ (pc = "open" /\ call.k < HighWater /\ ~Written(call.k)) =>
          /\ call.op = "has_field" => res = Ok(FALSE)
          /\ call.op \in TryOps => res = Ok(None)
          /\ call.op \in StrictOps => res = Err("MissingField")

\* ------------------------------------------------------------------------
\* C4.  Scalar type check on read: get_scalar::<T>(k) and try_get_scalar::<T>(k)
\* return InvalidFieldType when entry k is present with a type_id that is not
\* T's.
\* ------------------------------------------------------------------------
C4_ScalarTypeChecked ==
    (/\ pc = "open"
     /\ call.op \in {"get_scalar", "try_get_scalar"}
     /\ call.k < reader.field_count
     /\ EntryTypeId(data, call.k) # 255
     /\ EntryTypeId(data, call.k) # WireTypeId(call.ty))
    => res = Err("InvalidFieldType")

\* ------------------------------------------------------------------------
\* C5.  String and bytes round trip, zero copy: when the last write to k is
\* set_string(k, s) (set_bytes(k, b)), get_string(k) (get_bytes(k)) returns
\* the slice that starts at offset + 4 of the finished buffer, offset being
\* entry k's, with length |s|, and its content is s.
\* ------------------------------------------------------------------------
C5_StringBytesRoundTrip ==
    (/\ pc = "open"
     /\ Written(call.k)
     /\ \/ call.op = "get_string" /\ LastWrite(call.k).op = "set_string"
        \/ call.op = "get_bytes" /\ LastWrite(call.k).op = "set_bytes")
    => LET s == LastWrite(call.k).value
           at == EntryOffset(data, call.k) + 4
       IN  /\ res = Ok([ptr |-> at, bytes |-> s])
           /\ at + Len(s) <= Len(data)
           /\ SubSeq(data, at + 1, at + Len(s)) = s

\* a non-empty string was overwritten by nothing and read back
C5_Witness ==
    /\ pc = "open"
    /\ call.op = "get_string"
    /\ Written(call.k)
    /\ LastWrite(call.k).op = "set_string"
    /\ LastWrite(call.k).value # <<>>
    /\ IsOk(res)
    /\ res.val.bytes = LastWrite(call.k).value

\* ------------------------------------------------------------------------
\* C6.  Vector round trip: when the last write to k is set_vector(k, xs) with
\* elements of type T, get_vector::<T>(k) succeeds, its len() is |xs| and
\* its collect() returns xs in order.
\* ------------------------------------------------------------------------
C6_VectorRoundTrip ==
    (/\ pc = "open"
     /\ call.op \in {"get_vector", "VectorReader.len", "VectorReader.collect"}
     /\ Written(call.k)
     /\ LastWrite(call.k).op = "set_vector"
     /\ LastWrite(call.k).ty = call.ty)
    => LET xs == LastWrite(call.k).value
       IN  /\ call.op = "get_vector" => IsOk(res) /\ res.val.count = Len(xs)
           /\ call.op = "VectorReader.len" => res = Ok(Len(xs))
           /\ call.op = "VectorReader.collect" => res = Ok(xs)

\* a vector of two elements was collected
C6_Witness ==
    /\ pc = "open"
    /\ call.op = "VectorReader.collect"
    /\ Written(call.k)
    /\ LastWrite(call.k).op = "set_vector"
    /\ LastWrite(call.k).ty = call.ty
    /\ Len(LastWrite(call.k).value) = 2
    /\ res = Ok(LastWrite(call.k).value)

\* ------------------------------------------------------------------------
\* C7.  Nesting round trip: when the last write to k is set_message(k, M), M a
\* finished buffer, get_message(k) yields a sub-reader whose slice starts at
\* offset + 4 of the outer buffer, has M's bytes and M's field count; the
\* sub-reader is the reader MessageReader::new(M) gives, and every accessor
\* on it returns what it returns on that reader.
\* ------------------------------------------------------------------------
C7_NestingRoundTrip ==
    /\ (/\ pc = "open"
        /\ call.op = "get_message"
        /\ Written(call.k)
        /\ LastWrite(call.k).op = "set_message")
       => LET M == LastWrite(call.k).value
              at == EntryOffset(data, call.k) + 4
          IN  /\ res = Ok([ptr |-> at, buffer |-> M, field_count |-> U16At(M, 0)])
              /\ at + Len(M) <= Len(data)
              /\ SubSeq(data, at + 1, at + Len(M)) = M
    /\ pc = "nested"
       => \E i \in 1..Len(writes) :
            /\ writes[i].op = "set_message"
            /\ LastWriteIndex(writes[i].k) = i
            /\ LET direct == MessageReader_new(writes[i].value)
               IN  /\ IsOk(direct)
                   /\ reader = direct.val
                   /\ call.op \in ScalarOps \cup PlainOps => res = Accessor(direct.val, call)

\* a string was read through the sub-reader of a nested message
C7_Witness ==
    /\ pc = "nested"
    /\ call.op = "get_string"
    /\ IsOk(res)

\* ------------------------------------------------------------------------
\* C8.  Finished buffer layout: finish returns 2 + 5 * N + P bytes, N the
\* largest index set plus one and P the payload bytes of all the writes;
\* bytes 0..2 hold N little-endian; the offset in the entry of every index
\* that was set is 2 + 5 * N plus the position of its last write's payload
\* in the payload region.
\* ------------------------------------------------------------------------
C8_FinishedLayout ==
    pc = "finished" =>
        /\ Len(data) = 2 + 5 * HighWater + TotalPayload
        /\ data[1] = HighWater % 256
        /\ data[2] = HighWater \div 256
        /\ \A k \in 0..(HighWater - 1) :
              Written(k) =>
                  EntryOffset(data, k) = 2 + 5 * HighWater + PayloadPos(LastWriteIndex(k))

\* two fields were set, the second one's payload after the first one's
C8_Witness ==
    /\ pc = "finished"
    /\ Len(writes) = 2
    /\ writes[1].k = 1
    /\ writes[2].k = 0
    /\ EntryOffset(data, 0) = 12 + PayloadSize(writes[1])

\* ------------------------------------------------------------------------
\* C9.  Payload range check on read: for a present entry k whose kind is the
\* accessor's, when the entry's offset plus the payload size (the scalar's
\* width; 4 plus the announced length, or 4 plus count times the element
\* width) is beyond the buffer, the accessor returns OutOfBounds.
\* ------------------------------------------------------------------------
C9_RangeChecked ==
    (/\ pc = "open"
     /\ call.op \in TryOps \cup StrictOps
     /\ call.k < reader.field_count
     /\ LET id == EntryTypeId(data, call.k)
            off == EntryOffset(data, call.k)
            word == IF off + 4 > Len(data) THEN 0 ELSE U32At(data, off)
        IN  \/ /\ call.op \in {"get_scalar", "try_get_scalar"}
               /\ id = WireTypeId(call.ty)
               /\ off + WireWidth(call.ty) > Len(data)
            \/ /\ \/ call.op \in {"get_string", "try_get_string"} /\ id = 11
                  \/ call.op \in {"get_bytes", "try_get_bytes"} /\ id = 12
                  \/ call.op \in {"get_message", "try_get_message"} /\ id = 13
               /\ off + 4 + word > Len(data)
            \/ /\ call.op \in {"get_vector", "try_get_vector"}
               /\ id = 14
               /\ off + 4 + word * WireWidth(call.ty) > Len(data))
    => res = Err("OutOfBounds")

\* ------------------------------------------------------------------------
\* C10.  Reader construction: MessageReader::new(buf) returns InvalidMessage
\* exactly when |buf| < 2 or |buf| < 2 + 5 * N, N the u16 little-endian at
\* bytes 0..2; otherwise it succeeds with field_count() = N, whatever the
\* entries hold.
\* ------------------------------------------------------------------------
C10_ReaderConstruction ==
    call.op = "new" =>
        IF Len(data) < 2 \/ Len(data) < 2 + 5 * U16At(data, 0)
        THEN res = Err("InvalidMessage") /\ pc = "rejected"
        ELSE /\ res = Ok([buffer |-> data, field_count |-> U16At(data, 0)])
             /\ reader = res.val
             /\ pc = "open"

\* a buffer with an entry of the unknown type_id 15 was opened
C10_Witness ==
    /\ call.op = "new"
    /\ IsOk(res)
    /\ reader.field_count = 2
    /\ EntryTypeId(data, 1) = 15

\* ------------------------------------------------------------------------
\* What C11 to C15 speak of
\* ------------------------------------------------------------------------
\* the try accessor a strict accessor goes with
TryOf(op) ==
    CASE op = "get_scalar" -> "try_get_scalar"
      [] op = "get_string" -> "try_get_string"
      [] op = "get_bytes" -> "try_get_bytes"
      [] op = "get_message" -> "try_get_message"
      [] op = "get_vector" -> "try_get_vector"

\* the type_id a variable-width accessor asks for
OwnTag(op) ==
    CASE op \in {"get_string", "try_get_string"} -> 11
      [] op \in {"get_bytes", "try_get_bytes"} -> 12
      [] op \in {"get_message", "try_get_message"} -> 13
      [] op \in {"get_vector", "try_get_vector"} -> 14

VariableOps ==
    {"get_string", "try_get_string", "get_bytes", "try_get_bytes", "get_message",
     "try_get_message", "get_vector", "try_get_vector"}

\* the type_id a write puts into its entry
KindId(w) ==
    CASE w.op = "set_scalar" -> WireTypeId(w.ty)
      [] w.op = "set_string" -> 11
      [] w.op = "set_bytes" -> 12
      [] w.op = "set_message" -> 13
      [] w.op = "set_vector" -> 14

\* the payload bytes of a write: a scalar little-endian; a length or count
\* word (below 65536 here) and the body
ScalarBytes(ty, v) == IF WireWidth(ty) = 1 THEN <<v[1]>> ELSE to_le_bytes(v)

RECURSIVE ElementBytes(_, _)
ElementBytes(ty, xs) ==
    IF xs = <<>> THEN <<>> ELSE ScalarBytes(ty, Head(xs)) \o ElementBytes(ty, Tail(xs))

Word(n) == <<n % 256, n \div 256, 0, 0>>

Encoded(w) ==
    CASE w.op = "set_scalar" -> ScalarBytes(w.ty, w.value)
      [] w.op = "set_vector" -> Word(Len(w.value)) \o ElementBytes(w.ty, w.value)
      [] OTHER -> Word(Len(w.value)) \o w.value

\* ------------------------------------------------------------------------
\* C11.  Index range on read: on a reader of field count N, every strict and
\* every try accessor called with an index k >= N returns OutOfBounds, and
\* has_field(k) returns false.
\* ------------------------------------------------------------------------
C11_IndexRange ==
    (/\ pc \in {"open", "nested"}
     /\ call.op \in TryOps \cup StrictOps \cup {"has_field"}
     /\ call.k >= reader.field_count)
    => IF call.op = "has_field" THEN res = Ok(FALSE) ELSE res = Err("OutOfBounds")

\* a reader with a field was asked for the string at the index just past
\* its table
C11_Witness ==
    /\ pc = "open"
    /\ call.op = "try_get_string"
    /\ reader.field_count > 0
    /\ call.k = reader.field_count
    /\ res = Err("OutOfBounds")

\* ------------------------------------------------------------------------
\* C12.  Strict versus try accessors: on an entry k < N of type_id 255
\* (Unset) every try accessor returns Ok(None) and every strict accessor
\* MissingField; on any other entry the strict accessor returns the value
\* the try accessor returns, or the same error.
\* ------------------------------------------------------------------------
C12_StrictVersusTry ==
    (/\ pc \in {"open", "nested"}
     /\ call.op \in TryOps \cup StrictOps
     /\ call.k < reader.field_count)
    => IF EntryTypeId(reader.buffer, call.k) = 255
       THEN /\ call.op \in TryOps => res = Ok(None)
            /\ call.op \in StrictOps => res = Err("MissingField")
       ELSE call.op \in StrictOps =>
                LET t == Accessor(reader, [call EXCEPT !.op = TryOf(call.op)])
                IN  IF IsOk(t) THEN t.val.some /\ res = Ok(t.val.v) ELSE res = t

\* a strict accessor was called on an Unset entry
C12_Witness ==
    /\ pc = "open"
    /\ call.op = "get_bytes"
    /\ call.k < reader.field_count
    /\ EntryTypeId(data, call.k) = 255
    /\ res = Err("MissingField")

\* ------------------------------------------------------------------------
\* C13.  Kind check of the variable-width accessors: get_string, get_bytes,
\* get_message, get_vector and their try variants return InvalidFieldType
\* when entry k is present with a type_id that is not their own (11, 12, 13,
\* 14), wherever the entry's offset points.
\* ------------------------------------------------------------------------
C13_KindChecked ==
    (/\ pc \in {"open", "nested"}
     /\ call.op \in VariableOps
     /\ call.k < reader.field_count
     /\ EntryTypeId(reader.buffer, call.k) # 255
     /\ EntryTypeId(reader.buffer, call.k) # OwnTag(call.op))
    => res = Err("InvalidFieldType")

\* bytes were asked of a string entry whose offset is past the buffer's end
C13_Witness ==
    /\ pc = "open"
    /\ call.op = "get_bytes"
    /\ call.k < reader.field_count
    /\ EntryTypeId(data, call.k) = 11
    /\ EntryOffset(data, call.k) > Len(data)
    /\ res = Err("InvalidFieldType")

C15_BuilderIndexLimit ==
    [][(pc = "building" /\ pc' = "building") =>
          /\ IF call'.k >= MAX_FIELDS
             THEN res' = Err("OutOfBounds") /\ builder' = builder /\ writes' = writes
             ELSE IsOk(res') /\ builder'.field_count > call'.k
          /\ (call = NoCall /\ call'.k >= MAX_FIELDS) =>
                /\ IsOk(set_scalar(builder, MAX_FIELDS - 1, T,
                                   CHOOSE v \in ScalarValues(T) : TRUE).r)
                /\ IsOk(set_string(builder, MAX_FIELDS - 1, <<122>>).r)
                /\ IsOk(set_bytes(builder, MAX_FIELDS - 1, <<122>>).r)
                /\ IsOk(set_message(builder, MAX_FIELDS - 1, <<0, 0>>).r)
                /\ IsOk(set_vector(builder, MAX_FIELDS - 1, T, <<>>).r)
                /\ ensure_field_index(builder, MAX_FIELDS - 1).b.field_count = MAX_FIELDS
      ]_vars

\* a builder holding two fields refused index 65535
C15_Witness ==
    /\ pc = "building"
    /\ call.k = MAX_FIELDS
    /\ res = Err("OutOfBounds")
    /\ Len(writes) = 1
    /\ builder.field_count = 2

\* ------------------------------------------------------------------------
\* What the compiler's properties speak of
\* ------------------------------------------------------------------------
\* the names a field type mentions, and whether it holds a vector of vectors
RECURSIVE ReferencedNames(_)
ReferencedNames(field_type) ==
    CASE field_type.tag = "Scalar" -> {}
      [] field_type.tag = "UserDefined" -> {field_type.name}
      [] field_type.tag = "Vector" -> ReferencedNames(field_type.inner)

RECURSIVE HasNestedVector(_)
HasNestedVector(field_type) ==
    /\ field_type.tag = "Vector"
    /\ field_type.inner.tag = "Vector" \/ HasNestedVector(field_type.inner)

\* no two members of the sequence `xs` agree on key(_)
Unique(xs, key(_)) == \A i, j \in 1..Len(xs) : i # j => key(xs[i]) # key(xs[j])

NameOf(x) == x.name

DeclaredNames(items) == {items[i].name : i \in 1..Len(items)}

\* the value of each variant of an enum: the written one, else its position
ValuesOf(variants) ==
    [i \in 1..Len(variants) |->
        IF variants[i].value.some THEN variants[i].value.v ELSE as_i64(i - 1)]

\* the texts of CompilerError::Validation
ValidationErrors ==
    {"Validation: Duplicate type name", "Validation: Field name is reserved",
     "Validation: Unknown type used in field", "Validation: Nested vectors are not allowed",
     "Validation: Duplicate field name", "Validation: Duplicate variant name",
     "Validation: Duplicate enum value", "Validation: Enum name is reserved"}

IsValidationError(r) == r.tag = "Err" /\ r.err \in ValidationErrors

\* the items, enums and messages of the schema being compiled
TheItems == ast.val.items
TheMessages == SelectSeq(TheItems, LAMBDA item : item.kind = "Message")
TheEnums == SelectSeq(TheItems, LAMBDA item : item.kind = "Enum")

\* the arrangements of 1..n
Orders(n) == {f \in [1..n -> 1..n] : \A i, j \in 1..n : i # j => f[i] # f[j]}

\* ------------------------------------------------------------------------
\* C16.  Validator soundness: a schema for which validate returns Ok has
\* pairwise-unique item names, pairwise-unique field names in each message,
\* pairwise-unique variant names and pairwise-distinct variant values in
\* each enum, and every user-defined name in a field type, a vector's
\* element type included, is the name of a declared item.
\* ------------------------------------------------------------------------
C16_ValidatorSound ==
    (cpc \in {"validated", "lowered"} /\ IsOk(verdict)) =>
        /\ Unique(TheItems, NameOf)
        /\ \A m \in 1..Len(TheMessages) :
              /\ Unique(TheMessages[m].fields, NameOf)
              /\ \A f \in 1..Len(TheMessages[m].fields) :
                    ReferencedNames(TheMessages[m].fields[f].field_type)
                        \subseteq DeclaredNames(TheItems)
        /\ \A e \in 1..Len(TheEnums) :
              /\ Unique(TheEnums[e].variants, NameOf)
              /\ \A i, j \in 1..Len(TheEnums[e].variants) :
                    i # j => ValuesOf(TheEnums[e].variants)[i]
                                 # ValuesOf(TheEnums[e].variants)[j]

\* an accepted schema of a message with a vector of B and an enum B of one
\* variant
C16_Witness ==
    /\ cpc = "validated"
    /\ IsOk(verdict)
    /\ Len(TheItems) = 2
    /\ TheItems[1].kind = "Message"
    /\ Len(TheItems[1].fields) = 1
    /\ TheItems[1].fields[1].field_type = Vector(UserDefined(<<"B">>))
    /\ TheItems[2] = Enum(<<"B">>, <<EnumVariant(<<"P">>, Some(as_i64(1)))>>)

\* ------------------------------------------------------------------------
\* C17.  Validator completeness: validate returns a Validation error for a
\* schema with a duplicate item name, a duplicate field name in a message, a
\* duplicate variant name or value in an enum, an undeclared user-defined
\* name, a vector of vectors, a field named type, id, data or buffer, or an
\* enum named Result, Option or Status.
\* ------------------------------------------------------------------------
DuplicateItemName == ~Unique(TheItems, NameOf)
DuplicateFieldName == \E m \in 1..Len(TheMessages) : ~Unique(TheMessages[m].fields, NameOf)
DuplicateVariantName == \E e \in 1..Len(TheEnums) : ~Unique(TheEnums[e].variants, NameOf)
DuplicateVariantValue ==
    \E e \in 1..Len(TheEnums) :
        \E i, j \in 1..Len(TheEnums[e].variants) :
            i # j /\ ValuesOf(TheEnums[e].variants)[i] = ValuesOf(TheEnums[e].variants)[j]
UndeclaredName ==
    \E m \in 1..Len(TheMessages) : \E f \in 1..Len(TheMessages[m].fields) :
        ~(ReferencedNames(TheMessages[m].fields[f].field_type) \subseteq DeclaredNames(TheItems))
VectorOfVectors ==
    \E m \in 1..Len(TheMessages) : \E f \in 1..Len(TheMessages[m].fields) :
        HasNestedVector(TheMessages[m].fields[f].field_type)
ReservedFieldName ==
    \E m \in 1..Len(TheMessages) : \E f \in 1..Len(TheMessages[m].fields) :
        TheMessages[m].fields[f].name
            \in {<<"t", "y", "p", "e">>, <<"i", "d">>, <<"d", "a", "t", "a">>,
                 <<"b", "u", "f", "f", "e", "r">>}
ReservedEnumName ==
    \E e \in 1..Len(TheEnums) :
        TheEnums[e].name \in {<<"R", "e", "s", "u", "l", "t">>,
                              <<"O", "p", "t", "i", "o", "n">>,
                              <<"S", "t", "a", "t", "u", "s">>}

C18_ParserNeverPanics ==
    cpc = "parsed" => (IsOk(ast) \/ ast = Err("Parse"))

\* ------------------------------------------------------------------------
\* C19.  Declaration order does not matter to name resolution: validate
\* accepts a schema exactly when it accepts the same items in any other
\* order, so a field may name an item declared later, or its own message.
\* ------------------------------------------------------------------------
C19_OrderIndependent ==
    cpc = "validated" =>
        \A order \in Orders(Len(TheItems)) :
            IsOk(validate([items |-> [i \in 1..Len(TheItems) |-> TheItems[order[i]]]]))
                <=> IsOk(verdict)

\* an accepted schema whose first message names the item declared after it
C19_Witness ==
    /\ cpc = "validated"
    /\ IsOk(verdict)
    /\ Len(TheItems) = 2
    /\ TheItems[1].kind = "Message"
    /\ Len(TheItems[1].fields) = 1
    /\ ReferencedNames(TheItems[1].fields[1].field_type) = {TheItems[2].name}

\* ------------------------------------------------------------------------
\* C20.  Lowering keeps the order and numbers the fields by position: the
\* IR has the messages in declaration order and the enums in declaration
\* order, and the i-th declared field (from 0) of a message is its i-th IR
\* field, with index i, its name, its optional flag, and a default literal
\* exactly when the field had a default, an integer default as its decimal
\* text.  For the text S6Text: fields 0, 1, 2, field 1 optional, field 2 with
\* the default literal "3".
\* ------------------------------------------------------------------------
Decimal(n) == IF n.mag = <<>> THEN <<"0">> ELSE (IF n.neg THEN <<"-">> ELSE <<>>) \o n.mag

FieldLowered(field, ir_field, i) ==
    /\ ir_field.index = i
    /\ ir_field.name = field.name
    /\ ir_field.optional = field.optional
    /\ ir_field.default_value.some = field.default_value.some
    /\ (field.default_value.some /\ field.default_value.v.kind = "Integer")
          => ir_field.default_value.v = Decimal(field.default_value.v.v)

IrUserTypes ==
    LET types == UNION {{ir.val.messages[m].fields[f].field_type :
                             f \in 1..Len(ir.val.messages[m].fields)} :
                                 m \in 1..Len(ir.val.messages)}
        elements == {t.element_type : t \in {v \in types : v.tag = "Vector"}}
    IN  {t \in types \cup elements : t.tag = "UserDefined"}

C21_ResolvedKind ==
    (cpc = "lowered" /\ IsOk(ir)) =>
        \A t \in IrUserTypes :
            /\ t.is_message <=> t.type_name \in DeclaredNames(TheMessages)
            /\ ~t.is_message <=> t.type_name \in DeclaredNames(TheEnums)

\* an accepted schema lowered whose first item is a message with a field of
\* an enum type, the enum being declared after the message
C21_Witness ==
    /\ cpc = "lowered"
    /\ IsOk(ir)
    /\ Len(TheItems) = 2
    /\ TheItems[1].kind = "Message"
    /\ TheItems[2].kind = "Enum"
    /\ \E t \in IrUserTypes : t.type_name = TheItems[2].name /\ ~t.is_message

\* ------------------------------------------------------------------------
\* C22.  Lowering is total on validated input: when validate returned Ok, no
\* field type of the schema holds a vector of vectors, and lower_ast returns
\* an IR, never a panic.
\* ------------------------------------------------------------------------
C22_LoweringTotal ==
    /\ (cpc = "validated" /\ IsOk(verdict)) =>
           \A m \in 1..Len(TheMessages) : \A f \in 1..Len(TheMessages[m].fields) :
               ~HasNestedVector(TheMessages[m].fields[f].field_type)
    /\ cpc = "lowered" => (ir # Panic /\ IsOk(ir))

\* an accepted schema with a vector field has been lowered
C22_Witness ==
    /\ cpc = "lowered"
    /\ IsOk(ir)
    /\ \E m \in 1..Len(ir.val.messages) : \E f \in 1..Len(ir.val.messages[m].fields) :
           ir.val.messages[m].fields[f].field_type.tag = "Vector"

\* ------------------------------------------------------------------------
\* C23.  Order of validation checks: the validator reports the first failure
\* in this order: in a message the reserved field names, then the uniqueness
\* of field names, then the field types (a message with a duplicate field
\* name and a field of unknown type gets the duplicate-field-name error); in
\* an enum the reserved enum name, then the uniqueness of variant names,
\* then the uniqueness of values.  Stated for schemas of one item.
\* ------------------------------------------------------------------------
C23_CheckOrder ==
    (cpc = "validated" /\ Len(TheItems) = 1) =>
        /\ ReservedFieldName => verdict = Err("Validation: Field name is reserved")
        /\ (~ReservedFieldName /\ DuplicateFieldName)
               => verdict = Err("Validation: Duplicate field name")
        /\ ReservedEnumName => verdict = Err("Validation: Enum name is reserved")
        /\ (~ReservedEnumName /\ DuplicateVariantName)
               => verdict = Err("Validation: Duplicate variant name")
        /\ (~ReservedEnumName /\ ~DuplicateVariantName /\ DuplicateVariantValue)
               => verdict = Err("Validation: Duplicate enum value")

\* ------------------------------------------------------------------------
\* C24.  Builder output is well formed: MessageReader::new succeeds on every
\* buffer that finish returns, and every entry whose type_id is not Unset
\* (255) has its whole payload inside the payload region: 2 + 5 * N <= offset
\* and offset + payload_size <= |B|, the payload size being the scalar's
\* width, or 4 plus the length (or the count times the element width) read
\* at the offset.
\* ------------------------------------------------------------------------
\* the payload size of entry k of the finished buffer, by its type_id
EntryPayloadSize(k) ==
    LET id == EntryTypeId(data, k)
        offset == EntryOffset(data, k)
        word == IF offset + 4 > Len(data) THEN TooBig ELSE U32At(data, offset)
    IN  CASE id \in {0, 4, 10} -> 1
          [] id \in {1, 5} -> 2
          [] id \in {2, 6, 8} -> 4
          [] id \in {3, 7, 9} -> 8
          [] id \in {11, 12, 13} -> 4 + word
          [] id = 14 -> 4 + word * (IF Written(k) THEN WireWidth(LastWrite(k).ty) ELSE 1)
          [] OTHER -> TooBig

C24_BuilderOutputWellFormed ==
    pc = "finished" =>
        /\ IsOk(MessageReader_new(data))
        /\ \A k \in 0..(HighWater - 1) :
              EntryTypeId(data, k) # PrimitiveType.Unset =>
                  /\ 2 + 5 * HighWater <= EntryOffset(data, k)
                  /\ EntryOffset(data, k) + EntryPayloadSize(k) <= Len(data)

\* ------------------------------------------------------------------------
\* C25.  snake_case rule: to_snake_case puts an underscore before an
\* uppercase letter exactly when the letter follows a lowercase letter,
\* lowercases every uppercase letter and leaves every other character as it
\* is; nothing is inserted before an uppercase letter that follows an
\* underscore, a digit or an uppercase letter, nor at position 0.  Stated of
\* the rust_name of every lowered field.
\* ------------------------------------------------------------------------
\* the stated rule applied to the characters of `name` from the i-th on
RECURSIVE SnakeRuleFrom(_, _)
SnakeRuleFrom(name, i) ==
    LET IsUpper(ch) == \E u \in 1..26 : UpperCase[u] = ch
        IsLower(ch) == \E u \in 1..26 : LowerCase[u] = ch
    IN  IF i > Len(name) THEN <<>>
        ELSE (IF IsUpper(name[i])
              THEN (IF i > 1 /\ IsLower(name[i - 1]) THEN <<"_">> ELSE <<>>)
                       \o <<to_ascii_lowercase(name[i])>>
              ELSE <<name[i]>>) \o SnakeRuleFrom(name, i + 1)

C25_SnakeCaseRule ==
    (cpc = "lowered" /\ IsOk(ir)) =>
        \A m \in 1..Len(ir.val.messages) : \A f \in 1..Len(ir.val.messages[m].fields) :
            ir.val.messages[m].fields[f].rust_name
                = SnakeRuleFrom(ir.val.messages[m].fields[f].name, 1)

\* ------------------------------------------------------------------------
\* C26.  Vector view access: on the VectorReader of element type T and count
\* c that get_vector returned, get(i) returns OutOfBounds for every i >= c
\* and for i < c the element decoded from the size(T) bytes at
\* offset + i * size(T); iter() yields exactly c results and collect() c
\* elements, in index order, each what get(i) returns; is_empty() is true
\* exactly when c = 0.
\* ------------------------------------------------------------------------
C26_VectorView ==
    (/\ pc \in {"open", "nested"}
     /\ call.op \in {"VectorReader.get", "VectorReader.iter", "VectorReader.collect",
                     "VectorReader.is_empty"})
    => LET vr == get_vector(reader, call.ty, call.k).val
           size == WireWidth(call.ty)
           bytes(i) == Slice(vr.buffer, vr.offset + i * size, vr.offset + (i + 1) * size)
           element(i) == IF call.ty = "bool" THEN <<IF bytes(i)[1] # 0 THEN 1 ELSE 0>>
                         ELSE IF size = 1 THEN bytes(i)
                         ELSE from_le_bytes(bytes(i))
       IN  /\ call.op = "VectorReader.get" =>
                  IF call.index >= vr.count THEN res = Err("OutOfBounds")
                  ELSE res = Ok(element(call.index))
           /\ call.op = "VectorReader.iter" =>
                  res = Ok([i \in 1..vr.count |-> Ok(element(i - 1))])
           /\ call.op = "VectorReader.collect" =>
                  res = Ok([i \in 1..vr.count |-> element(i - 1)])
           /\ call.op = "VectorReader.is_empty" => res = Ok(vr.count = 0)

\* the second element of a vector of two 16-bit elements was read with get
C26_Witness ==
    /\ pc = "open"
    /\ call.op = "VectorReader.get"
    /\ call.ty = "u16"
    /\ call.index = 1
    /\ get_vector(reader, call.ty, call.k).val.count = 2
    /\ IsOk(res)

\* ------------------------------------------------------------------------
\* C27.  Unterminated constructs are parse errors: parse returns a Parse
\* error, and never a Schema, for every input in which a message or enum
\* body is not closed by '}' before the end of input, a string literal has
\* no closing double quote, or a block comment has no closing '*/'.
\* ------------------------------------------------------------------------
\* where the text stands at its end, reading it from character i on (1-based)
\* in `mode` ("code", "line" comment, "block" comment or "string"), `open`
\* telling whether a '{' is waiting for its '}'
RECURSIVE EndOfText(_, _, _, _)
EndOfText(text, i, mode, open) ==
    LET two == IF i < Len(text) THEN <<text[i], text[i + 1]>> ELSE <<>>
    IN  IF i > Len(text) THEN [mode |-> mode, open |-> open]
        ELSE CASE mode = "code" ->
                  IF two = <<"/", "/">> THEN EndOfText(text, i + 2, "line", open)
                  ELSE IF two = <<"/", "*">> THEN EndOfText(text, i + 2, "block", open)
                  ELSE IF text[i] = "\"" THEN EndOfText(text, i + 1, "string", open)
                  ELSE IF text[i] = "{" THEN EndOfText(text, i + 1, "code", TRUE)
                  ELSE IF text[i] = "}" THEN EndOfText(text, i + 1, "code", FALSE)
                  ELSE EndOfText(text, i + 1, "code", open)
               [] mode = "line" ->
                  EndOfText(text, i + 1, IF text[i] = "\n" THEN "code" ELSE "line", open)
               [] mode = "block" ->
                  IF two = <<"*", "/">> THEN EndOfText(text, i + 2, "code", open)
                  ELSE EndOfText(text, i + 1, "block", open)
               [] mode = "string" ->
                  IF text[i] = "\\" THEN EndOfText(text, i + 2, "string", open)
                  ELSE IF text[i] = "\"" THEN EndOfText(text, i + 1, "code", open)
                  ELSE EndOfText(text, i + 1, "string", open)

Unterminated(text) ==
    LET end == EndOfText(text, 1, "code", FALSE)
    IN  end.open \/ end.mode \in {"block", "string"}

C27_UnterminatedIsParseError ==
    (cpc = "parsed" /\ source # <<>> /\ Unterminated(source)) => ast = Err("Parse")

\* ------------------------------------------------------------------------
\* C28.  A rejected scalar write leaves the builder unchanged: when
\* set_scalar(k, v) returns InvalidFieldType because the type of v is not
\* one of the eleven fixed-width scalars, field_count(), the field table and
\* the payload are what they were before the call and finish yields the same
\* bytes, also when k is larger than every index set so far.
\* ------------------------------------------------------------------------
C28_RejectedWriteFrame ==
    [][(pc = "building" /\ pc' = "refused" /\ res' = Err("InvalidFieldType")) =>
          /\ builder'.field_count = builder.field_count
          /\ builder'.field_entries = builder.field_entries
          /\ builder'.buffer = builder.buffer
          /\ builder'.payload_offset = builder.payload_offset
          /\ finish(builder') = finish(builder)
      ]_vars

\* ------------------------------------------------------------------------
\* C29.  Generated names do not collide: in the IR of an accepted schema the
\* rust_name values are pairwise distinct among the fields of each message,
\* among the variants of each enum, and among all messages and enums.
\* ------------------------------------------------------------------------
C29_GeneratedNamesDistinct ==
    (cpc = "lowered" /\ IsOk(ir)) =>
        LET RustName(x) == x.rust_name
        IN  /\ \A m \in 1..Len(ir.val.messages) : Unique(ir.val.messages[m].fields, RustName)
            /\ \A e \in 1..Len(ir.val.enums) : Unique(ir.val.enums[e].variants, RustName)
            /\ Unique(ir.val.messages \o ir.val.enums, RustName)

\* ------------------------------------------------------------------------
\* C30.  Lexing terminates: on every text, every iteration of tokenize's main
\* loop, at whatever cursor, moves the cursor forward by at least one
\* character or returns the Parse error, so that tokenize finishes within as
\* many iterations as the text has characters.  This covers a line comment
\* that ends the text without a newline, an unterminated block comment, an
\* unterminated string literal ending in a backslash, and a '/' followed by
\* neither '/' nor '*'.
\* ------------------------------------------------------------------------
\* the iterations the main loop makes from cursor i on
RECURSIVE Iterations(_, _)
Iterations(chars, i) ==
    IF i >= Len(chars) THEN 0
    ELSE IF ~IsOk(tokenize_iteration(chars, i, <<>>).r) THEN 1
    ELSE 1 + Iterations(chars, tokenize_iteration(chars, i, <<>>).i)

C30_LexingTerminates ==
    cpc \in {"source", "parsed"} =>
        /\ \A i \in 0..(Len(source) - 1) :
              \/ tokenize_iteration(source, i, <<>>).r = Err("Parse")
              \/ tokenize_iteration(source, i, <<>>).i > i
        /\ Iterations(source, 0) <= Len(source)
        /\ tokenize(source).tag \in {"Ok", "Err", "Panic"}

\* a text that ends inside a string literal, on a backslash, has been lexed
C30_Witness ==
    /\ cpc = "parsed"
    /\ source # <<>>
    /\ source[Len(source)] = "\\"
    /\ EndOfText(source, 1, "code", FALSE).mode = "string"
    /\ IsOk(tokenize(source))
    /\ ast = Err("Parse")

====
